---- MODULE Spec2Model ----
(***************************************************************************)
(* A model of src/src/util/hd-transition.c of hildon-desktop: the effect   *)
(* records (HDEffectData) with their universal teardown                    *)
(* hd_transition_completed, the per-kind start operations, the subview     *)
(* coalescing, hd_transition_stop, and the rotation state machine          *)
(* hd_transition_rotating_fsm with its debounce timer.                     *)
(*                                                                         *)
(* The C functions are modelled as operators from a world record (all the  *)
(* program state) to the world after the call, so that a function which    *)
(* calls another (the FSM re-entering itself, the FSM tearing down the     *)
(* deferred effects) is one step.  Each action is one entry from the glib  *)
(* main loop: a public function called by the window manager, a timeline   *)
(* callback, or the debounce timeout.                                      *)
(***************************************************************************)
EXTENDS Integers, Sequences, FiniteSets, TLC

----------------------------------------------------------------------------
(* Bounds of the model. *)

\* Number of window-manager clients.
NClients == 3
\* Number of them that are menus, dialogs, notes or closing applications:
\* the clients of popup, fade, notification and close_app.  The others are
\* the views of an application, the clients of subview.
NPlain == 1
\* Number of HDEffectData that effects on clients can have allocated at once.
MaxEffects == 2
\* Number of HDEffectData slots set aside for hd_transition_fade_and_rotate.
RotSlots == 2
\* Number of hd_transition_rotate_screen calls in one rotation.
MaxRequests == 3
\* Frames of a timeline (clutter_timeline_get_n_frames): 1, 2 or 3.
NFrames == 2
\* damage_timeout_max, in units of damage_timeout (1000 ms / 50 ms in the code).
CeilingTicks == 2

\* Length of HDEffectData.particles (set in hd-transition.h); at least 2.
HDCM_UNMAP_PARTICLES == 8
\* hd_comp_mgr_get_current_screen_width, in units of a quarter of the slide.
ScreenWidth == 4

(* Program constants. *)
NULL == 0
\* The default of the "angle" key of the "rotate" transition.
RotateAngle == 40

Clients == 1 .. NClients
PlainClients == 1 .. NPlain
ViewClients == Clients \ PlainClients
ClientSlots == 1 .. MaxEffects
RotationSlots == (MaxEffects + 1) .. (MaxEffects + RotSlots)
EffectIds == 1 .. (MaxEffects + RotSlots)

(* enum direction / new_direction *)
GOTO_LANDSCAPE == "GOTO_LANDSCAPE"
GOTO_PORTRAIT == "GOTO_PORTRAIT"
(* enum phase *)
IDLE == "IDLE"
FADE_OUT == "FADE_OUT"
WAITING == "WAITING"
FADE_IN == "FADE_IN"
(* MBWMCompMgrClientEvent *)
EventMap == "Map"
EventUnmap == "Unmap"
(* MBWMCompMgrClutterClient flags *)
DontUpdate == "DontUpdate"
EffectRunning == "EffectRunning"
DontShow == "DontShow"
(* HDRMStateEnum, the values the transitions distinguish *)
HDRM_STATE_UNDEFINED == "UNDEFINED"
HDRM_STATE_HOME == "HOME"
HDRM_STATE_APP == "APP"
HDRM_STATE_APP_PORTRAIT == "APP_PORTRAIT"
HDRM_STATE_TASK_NAV == "TASK_NAV"
HdrmStates == {HDRM_STATE_UNDEFINED, HDRM_STATE_HOME, HDRM_STATE_APP,
               HDRM_STATE_APP_PORTRAIT, HDRM_STATE_TASK_NAV}
STATE_IS_PORTRAIT(s) == s = HDRM_STATE_APP_PORTRAIT
STATE_IS_PORTRAIT_CAPABLE(s) == s \in {HDRM_STATE_HOME, HDRM_STATE_APP}
STATE_IS_APP(s) == s \in {HDRM_STATE_APP, HDRM_STATE_APP_PORTRAIT}

----------------------------------------------------------------------------
VARIABLES
  \* Orientation_change
  wm, direction, new_direction, phase, goto_state, timeout_id, timer,
  effects_waiting,
  \* the HDEffectData records, by slot, and what each owns
  effects, timelines, frame, timeline_refs, decor_actors,
  \* the clients: flags, HdCompMgrClient::effect, references held by effects,
  \* and each client's actor
  flags, effect, refs, actor_refs, actor, has_actor,
  \* the collaborators: the effect counter of HdCompMgr, the screen, the
  \* render manager, the glib timeout sources that call the FSM
  effect_running, is_portrait, hdrm_visible, hdrm_state, sources, due,
  \* transitions.ini: the file, the statics of hd_transition_get_keyfile
  \* and the inotify event not yet read
  ini,
  \* history: the requests made, the phases entered, the reconfigurations
  \* asked for, the last call with its return value, and a fault marker
  req_log, phase_log, reconf_log, last, fault

vars == << wm, direction, new_direction, phase, goto_state, timeout_id, timer,
           effects_waiting, effects, timelines, frame, timeline_refs,
           decor_actors, flags, effect, refs, actor_refs, actor, has_actor,
           effect_running, is_portrait, hdrm_visible, hdrm_state, sources, due,
           ini, req_log, phase_log, reconf_log, last, fault >>

(* The whole program state as one record. *)
World ==
  [ wm |-> wm, direction |-> direction, new_direction |-> new_direction,
    phase |-> phase, goto_state |-> goto_state, timeout_id |-> timeout_id,
    timer |-> timer, effects_waiting |-> effects_waiting,
    effects |-> effects, timelines |-> timelines, frame |-> frame,
    timeline_refs |-> timeline_refs, decor_actors |-> decor_actors,
    flags |-> flags, effect |-> effect, refs |-> refs,
    actor_refs |-> actor_refs, actor |-> actor, has_actor |-> has_actor,
    effect_running |-> effect_running, is_portrait |-> is_portrait,
    hdrm_visible |-> hdrm_visible, hdrm_state |-> hdrm_state,
    sources |-> sources, due |-> due, ini |-> ini,
    req_log |-> req_log, phase_log |-> phase_log, reconf_log |-> reconf_log,
    last |-> last, fault |-> fault ]

(* F of the value of x: x is evaluated once, however often F reads its    *)
(* argument.                                                               *)
With(x, F(_)) == CHOOSE y \in { F(v) : v \in {x} } : TRUE

(* The next state is the world w. *)
Becomes(w) ==
  \E v \in {w} :
    /\ wm' = v.wm /\ direction' = v.direction
    /\ new_direction' = v.new_direction /\ phase' = v.phase
    /\ goto_state' = v.goto_state /\ timeout_id' = v.timeout_id
    /\ timer' = v.timer /\ effects_waiting' = v.effects_waiting
    /\ effects' = v.effects /\ timelines' = v.timelines /\ frame' = v.frame
    /\ timeline_refs' = v.timeline_refs /\ decor_actors' = v.decor_actors
    /\ flags' = v.flags /\ effect' = v.effect /\ refs' = v.refs
    /\ actor_refs' = v.actor_refs /\ actor' = v.actor
    /\ has_actor' = v.has_actor
    /\ effect_running' = v.effect_running /\ is_portrait' = v.is_portrait
    /\ hdrm_visible' = v.hdrm_visible /\ hdrm_state' = v.hdrm_state
    /\ sources' = v.sources /\ due' = v.due
    /\ ini' = v.ini
    /\ req_log' = v.req_log /\ phase_log' = v.phase_log
    /\ reconf_log' = v.reconf_log
    /\ last' = v.last /\ fault' = v.fault

----------------------------------------------------------------------------
(* HDEffectData.  kind names the new-frame handler connected to the        *)
(* timeline; timeline is whether data->timeline is set; fsm_cb is whether  *)
(* a finished_callback (the FSM) is connected to "completed"; particles is *)
(* the number of non-empty particles[] slots.                              *)
NoEffect ==
  [ live |-> FALSE, kind |-> "none", event |-> "none", timeline |-> FALSE,
    cclient |-> NULL, cclient_actor |-> NULL,
    cclient2 |-> NULL, cclient2_actor |-> NULL,
    hmgr |-> FALSE, angle |-> 0, particles |-> 0, fsm_cb |-> FALSE ]

(* A client's actor as the transitions see it: the x anchor the subview    *)
(* slide moves and its visibility.  Where an actor is in the scene is not  *)
(* followed: a call that reparents an actor or removes it from its parent  *)
(* leaves that in last.scene.                                              *)
InitActor == [ anchor |-> 0, visible |-> TRUE ]

NoTimer == -1

Min(S) == CHOOSE x \in S : \A y \in S : x <= y

FreeSlots(w, pool) ==
  { r \in pool : ~w.effects[r].live /\ w.timelines[r] # "running" }

(* mb_wm_comp_mgr_clutter_client_get_actor: the client's actor, or NULL. *)
get_actor(w, c) == IF w.has_actor[c] THEN c ELSE NULL


----------------------------------------------------------------------------
(* transitions.ini.  Of the file the model keeps whether it can be loaded  *)
(* and, when it can, the text of the one key that is asked for: the key is *)
(* absent, or its text is one of KeyTexts.  A double is kept in tenths.    *)
Unreadable == "unreadable"
NoKeyFile == "NULL"
Absent == "absent"
KeyTexts == {"fast", "120", "2.5"}
IniFiles == {Absent} \cup KeyTexts

(* The statics of hd_transition_get_keyfile and transitions_ini_is_dirty,  *)
(* the file, and the inotify event that transitions_ini_changed has not    *)
(* read yet.  The program starts with no file installed; the transitions   *)
(* then read every setting as its default.                                 *)
NoIni ==
  [ file |-> Unreadable, transitions_ini |-> NoKeyFile,
    transitions_ini_is_dirty |-> FALSE, transitions_ini_watcher |-> FALSE,
    event |-> "none" ]

(* A faulty hd_transition_get_keyfile, which gives up the keyfile it has   *)
(* when the file cannot be loaded again.                                   *)
get_keyfile_forgets(w, inotify_ok) ==
  IF w.ini.transitions_ini # NoKeyFile /\ ~w.ini.transitions_ini_is_dirty
  THEN w
  ELSE IF w.ini.file = Unreadable
  THEN [w EXCEPT !.ini.transitions_ini = NoKeyFile]
  ELSE LET w1 == [w EXCEPT !.ini.transitions_ini = w.ini.file]
       IN IF ~w1.ini.transitions_ini_watcher /\ ~inotify_ok THEN w1
          ELSE [w1 EXCEPT !.ini.transitions_ini_watcher = TRUE,
                          !.ini.transitions_ini_is_dirty = FALSE]

(* hd_transition_get_keyfile: the world after the call, whose              *)
(* ini.transitions_ini is the keyfile returned.  inotify_ok: inotify_init  *)
(* and inotify_add_watch succeed.                                          *)
hd_transition_get_keyfile(w, inotify_ok) ==
  IF w.ini.transitions_ini # NoKeyFile /\ ~w.ini.transitions_ini_is_dirty
  THEN w
  ELSE IF w.ini.file = Unreadable THEN w
  ELSE LET w1 == [w EXCEPT !.ini.transitions_ini = w.ini.file]
       IN IF ~w1.ini.transitions_ini_watcher /\ ~inotify_ok THEN w1
          ELSE [w1 EXCEPT !.ini.transitions_ini_watcher = TRUE,
                          !.ini.transitions_ini_is_dirty = FALSE]

(* g_key_file_get_integer and g_key_file_get_double of the key: the value *)
(* and whether the error is set.                                           *)
g_key_file_get_integer(text) ==
  IF text = "120" THEN [value |-> 120, error |-> FALSE]
  ELSE [value |-> 0, error |-> TRUE]
g_key_file_get_double(text) ==
  IF text = "120" THEN [value |-> 1200, error |-> FALSE]
  ELSE IF text = "2.5" THEN [value |-> 25, error |-> FALSE]
  ELSE [value |-> 0, error |-> TRUE]

(* hd_transition_get_int and hd_transition_get_double; the value returned  *)
(* is last.value.                                                          *)
hd_transition_get_int(w, default_val, inotify_ok) ==
  LET w1 == hd_transition_get_keyfile(w, inotify_ok)
      keyfile == w1.ini.transitions_ini
      got == g_key_file_get_integer(keyfile)
  IN [w1 EXCEPT !.last.value = IF keyfile = NoKeyFile \/ got.error
                               THEN default_val ELSE got.value]

hd_transition_get_double(w, default_val, inotify_ok) ==
  LET w1 == hd_transition_get_keyfile(w, inotify_ok)
      keyfile == w1.ini.transitions_ini
      got == g_key_file_get_double(keyfile)
  IN [w1 EXCEPT !.last.value = IF keyfile = NoKeyFile \/ got.error
                               THEN default_val ELSE got.value]

(* transitions_ini_changed: gone is one of IN_MOVE_SELF, IN_DELETE_SELF    *)
(* and IN_IGNORED, after which the channel is given up and                 *)
(* g_nullify_pointer clears transitions_ini_watcher.                       *)
transitions_ini_changed(w) ==
  [w EXCEPT !.ini.event = "none",
            !.ini.transitions_ini_is_dirty = TRUE,
            !.ini.transitions_ini_watcher =
               IF w.ini.event = "gone" THEN FALSE ELSE @]

----------------------------------------------------------------------------
(* The collaborators the transitions call. *)

(* What a call does to start an effect is kept in last.steps in the order  *)
(* of the statements: "record" for the g_new0 of the HDEffectData, "flags" *)
(* for a set_flags, "counted" for hd_comp_mgr_set_effect_running (TRUE),   *)
(* "frame" for a call of the new-frame handler and "start" for             *)
(* clutter_timeline_start.                                                 *)
step(w, name) == [w EXCEPT !.last.steps = Append(@, name)]

(* A faulty unset_flags, which clears every flag of the client. *)
unset_flags_all(w, c, fl) == [w EXCEPT !.flags[c] = {}]

(* mb_wm_comp_mgr_clutter_client_set_flags / _unset_flags *)
set_flags(w, c, fl) ==
  [w EXCEPT !.flags[c] = @ \cup fl, !.last.steps = Append(@, "flags")]
unset_flags(w, c, fl) == [w EXCEPT !.flags[c] = @ \ fl]

(* A faulty counter, which is not taken down. *)
effect_running_never_down(w, running) ==
  IF running
  THEN [w EXCEPT !.effect_running = @ + 1,
                 !.last.steps = Append(@, "counted")]
  ELSE w

(* hd_comp_mgr_set_effect_running: effect_running is the calls with TRUE   *)
(* less the calls with FALSE.                                              *)
hd_comp_mgr_set_effect_running(w, running) ==
  [w EXCEPT !.effect_running = IF running THEN @ + 1 ELSE @ - 1,
            !.last.steps = IF running THEN Append(@, "counted") ELSE @]

(* A screen that does not take the reconfiguration. *)
change_screen_orientation_skipped(w, goto_portrait) == w

(* hd_util_change_screen_orientation: the call is kept in reconf_log, and  *)
(* hd_comp_mgr_is_portrait answers with the orientation asked for.         *)
hd_util_change_screen_orientation(w, goto_portrait) ==
  [w EXCEPT !.is_portrait = goto_portrait,
            !.reconf_log = Append(@, goto_portrait)]

(* hd_render_manager_set_state *)
hd_render_manager_set_state(w, state) == [w EXCEPT !.hdrm_state = state]

(* g_timeout_add of hd_transition_rotating_fsm, and g_source_remove. *)
g_timeout_add(w) ==
  [w EXCEPT !.sources = @ + 1, !.due = FALSE, !.timeout_id = 1]
(* A g_source_remove that leaves the source armed. *)
source_remove_skipped(w) == w
g_source_remove(w) == [w EXCEPT !.sources = @ - 1]

(* clutter_actor_* on a client's actor; a NULL actor is left alone. *)
actor_set_anchor(w, a, x) ==
  IF a = NULL THEN w ELSE [w EXCEPT !.actor[a].anchor = x]
actor_show(w, a) ==
  IF a = NULL THEN w ELSE [w EXCEPT !.actor[a].visible = TRUE]
actor_hide(w, a) ==
  IF a = NULL THEN w ELSE [w EXCEPT !.actor[a].visible = FALSE]
(* clutter_actor_reparent to the front group; clutter_container_remove_actor *)
actor_reparent(w, a) ==
  IF a = NULL THEN w ELSE [w EXCEPT !.last.scene = @ \cup {<<"reparent", a>>}]
actor_remove(w, a) ==
  IF a = NULL THEN w ELSE [w EXCEPT !.last.scene = @ \cup {<<"remove", a>>}]
(* g_object_ref / g_object_unref of an actor; NULL is refused. *)
actor_ref(w, a) == IF a = NULL THEN w ELSE [w EXCEPT !.actor_refs[a] = @ + 1]
actor_unref(w, a) == IF a = NULL THEN w ELSE [w EXCEPT !.actor_refs[a] = @ - 1]
(* mb_wm_object_ref / mb_wm_object_unref of a client *)
client_ref(w, c) == [w EXCEPT !.refs[c] = @ + 1]
client_unref(w, c) == [w EXCEPT !.refs[c] = @ - 1]

----------------------------------------------------------------------------
(* hd_transition_smooth_ramp at amt = f / n, in quarters: (1 - cos(pi amt)) *)
(* / 2 is 0, 1/4, 1/2, 3/4, 1 at amt = 0, 1/3, 1/2, 2/3, 1; outside (0,1)   *)
(* amt is returned as it is.                                                *)
hd_transition_smooth_ramp(f, n) ==
  IF f <= 0 THEN 0
  ELSE IF f >= n THEN 4
  ELSE IF 2 * f = n THEN 2
  ELSE IF 3 * f = n THEN 1
  ELSE IF 3 * f = 2 * n THEN 3
  ELSE (4 * f) \div n

(* on_subview_timeline_new_frame *)
on_subview_timeline_new_frame(w, r, frame_num) ==
  LET data == w.effects[r]
      subview_actor == IF data.cclient # NULL THEN data.cclient_actor ELSE NULL
      main_actor == IF data.cclient2 # NULL THEN data.cclient2_actor ELSE NULL
      ramp == hd_transition_smooth_ramp(frame_num, NFrames)
      amt == IF data.event = EventUnmap THEN 4 - ramp ELSE ramp
      corner_x == ((4 - amt) * ScreenWidth) \div 4
      w1 == actor_show(actor_set_anchor(w, subview_actor, 0 - corner_x),
                       subview_actor)
      w2 == actor_show(actor_set_anchor(w1, main_actor,
                                        0 - (corner_x - ScreenWidth)),
                       main_actor)
      \* the last frame returns the actors to their places
      w3 == IF frame_num = NFrames
            THEN LET x == actor_set_anchor(w2, subview_actor, 0)
                 IN IF data.event = EventUnmap
                    THEN actor_hide(x, subview_actor) ELSE x
            ELSE w2
      w4 == IF frame_num = NFrames
            THEN LET y == actor_set_anchor(w3, main_actor, 0)
                 IN IF data.event = EventMap
                    THEN actor_hide(y, main_actor) ELSE y
            ELSE w3
  IN w4

(* The "new-frame" handler connected to the record's timeline.  Only the   *)
(* subview slide's effect on the actors is followed; the opacity, scale    *)
(* and rotation the other handlers set are not part of the state.          *)
new_frame(w, r, frame_num) ==
  IF w.effects[r].kind = "subview"
  THEN on_subview_timeline_new_frame(step(w, "frame"), r, frame_num)
  ELSE step(w, "frame")

(* A clutter_timeline_start that leaves the timeline as it is. *)
timeline_start_skipped(w, r) == step(w, "start")

(* clutter_timeline_start / clutter_timeline_stop *)
clutter_timeline_start(w, r) ==
  [w EXCEPT !.timelines[r] = "running", !.frame[r] = 0,
            !.last.steps = Append(@, "start")]
clutter_timeline_stop(w, r) ==
  [w EXCEPT !.timelines[r] = "stopped", !.frame[r] = 0]

----------------------------------------------------------------------------
(* hd_transition_completed (ClutterTimeline *timeline, HDEffectData *data): *)
(* timeline_given is whether the timeline argument is not NULL.  A call on  *)
(* a record that was freed already is marked as a fault.                    *)
(* Two faulty releases of a client: one that leaves the client's effect   *)
(* pointer, one that leaves its flags when the client has no effect        *)
(* pointer.                                                                *)
completed_client_keeps_pointer(w, c, a, unmap) ==
  IF c = NULL THEN w
  ELSE LET w2 == unset_flags(w, c, {DontUpdate, EffectRunning})
           w3 == client_unref(w2, c)
       IN IF unmap /\ a # NULL THEN actor_remove(w3, a) ELSE w3

completed_client(w, c, a, unmap) ==
  IF c = NULL THEN w
  ELSE LET w1 == [w EXCEPT !.effect[c] = NULL]
           w2 == unset_flags(w1, c, {DontUpdate, EffectRunning})
           w3 == client_unref(w2, c)
       IN IF unmap /\ a # NULL THEN actor_remove(w3, a) ELSE w3

(* What one teardown did, as last.torn keeps it: the clients whose marking *)
(* it cleared, and whether it released a timeline, told the manager, and   *)
(* how many decoration actors it released.                                 *)
torn_entry(before, after, r) ==
  [ slot |-> r, kind |-> before.effects[r].kind,
    clients |-> { c \in Clients :
                    /\ c \in {before.effects[r].cclient,
                               before.effects[r].cclient2}
                    /\ after.flags[c] \cap {DontUpdate, EffectRunning} = {}
                    /\ after.effect[c] = NULL },
    timer |-> after.timeline_refs[r] < before.timeline_refs[r],
    manager |-> after.effect_running < before.effect_running,
    particles |-> before.decor_actors[r] - after.decor_actors[r] ]

(* A faulty teardown, which does not tell the manager. *)
completed_without_notice(w0, r, timeline_given) ==
  With(w0, LAMBDA w :
  LET data == w.effects[r]
  IN IF ~data.live
     THEN [w EXCEPT !.fault = "double_teardown"]
     ELSE
       LET w1 == completed_client(w, data.cclient, data.cclient_actor,
                                  data.event = EventUnmap)
           w2 == actor_unref(w1, data.cclient_actor)
           w3 == completed_client(w2, data.cclient2, NULL, FALSE)
           w4 == actor_unref(w3, data.cclient2_actor)
           w5 == IF timeline_given
                 THEN [w4 EXCEPT !.timeline_refs[r] = @ - 1,
                                 !.timelines[r] =
                                    IF @ = "stopped" THEN "none" ELSE @]
                 ELSE w4
           w7 == [w5 EXCEPT !.decor_actors[r] = @ - data.particles]
       IN With(w7, LAMBDA v :
            [v EXCEPT !.effects[r] = NoEffect,
                      !.last.torn = Append(@, torn_entry(w, v, r))]))

hd_transition_completed(w0, r, timeline_given) ==
  With(w0, LAMBDA w :
  LET data == w.effects[r]
  IN IF ~data.live
     THEN [w EXCEPT !.fault = "double_teardown"]
     ELSE
       LET w1 == completed_client(w, data.cclient, data.cclient_actor,
                                  data.event = EventUnmap)
           w2 == actor_unref(w1, data.cclient_actor)
           w3 == completed_client(w2, data.cclient2, NULL, FALSE)
           w4 == actor_unref(w3, data.cclient2_actor)
           w5 == IF timeline_given
                 THEN [w4 EXCEPT !.timeline_refs[r] = @ - 1,
                                 !.timelines[r] =
                                    IF @ = "stopped" THEN "none" ELSE @]
                 ELSE w4
           w6 == IF data.hmgr
                 THEN hd_comp_mgr_set_effect_running(w5, FALSE) ELSE w5
           w7 == [w6 EXCEPT !.decor_actors[r] = @ - data.particles]
       IN With(w7, LAMBDA v :
            [v EXCEPT !.effects[r] = NoEffect,
                      !.last.torn = Append(@, torn_entry(w, v, r))]))


----------------------------------------------------------------------------
(* hd_transition_fade_and_rotate: the fade of the whole screen, with the   *)
(* FSM connected as finished_callback.  The record has no client and no    *)
(* manager.                                                                *)
(* A faulty hd_transition_fade_and_rotate, which turns the angle in the    *)
(* two other cases.                                                        *)
fade_and_rotate_other_sign(w, first_part, goto_portrait, finished_callback) ==
  LET free == FreeSlots(w, RotationSlots)
  IN IF free = {}
     THEN [w EXCEPT !.fault = "no_rotation_slot"]
     ELSE
       LET r == Min(free)
           angle == IF first_part # goto_portrait
                    THEN 0 - RotateAngle ELSE RotateAngle
           n == IF ~goto_portrait /\ first_part THEN 2 ELSE 1
           data == [NoEffect EXCEPT
                      !.live = TRUE, !.kind = "rotate",
                      !.event = IF first_part THEN EventMap ELSE EventUnmap,
                      !.timeline = TRUE, !.angle = angle, !.particles = n,
                      !.fsm_cb = finished_callback]
           w1 == [w EXCEPT !.effects[r] = data, !.timeline_refs[r] = 1,
                           !.decor_actors[r] = n,
                           !.last.steps = Append(@, "record")]
       IN clutter_timeline_start(new_frame(w1, r, 0), r)

hd_transition_fade_and_rotate(w, first_part, goto_portrait, finished_callback) ==
  LET free == FreeSlots(w, RotationSlots)
  IN IF free = {}
     THEN [w EXCEPT !.fault = "no_rotation_slot"]
     ELSE
       LET r == Min(free)
           angle == IF first_part = goto_portrait
                    THEN 0 - RotateAngle ELSE RotateAngle
           n == IF ~goto_portrait /\ first_part THEN 2 ELSE 1
           data == [NoEffect EXCEPT
                      !.live = TRUE, !.kind = "rotate",
                      !.event = IF first_part THEN EventMap ELSE EventUnmap,
                      !.timeline = TRUE, !.angle = angle, !.particles = n,
                      !.fsm_cb = finished_callback]
           w1 == [w EXCEPT !.effects[r] = data, !.timeline_refs[r] = 1,
                           !.decor_actors[r] = n,
                           !.last.steps = Append(@, "record")]
       IN clutter_timeline_start(new_frame(w1, r, 0), r)

(* An assignment to Orientation_change.phase. *)
set_phase(w, p) == [w EXCEPT !.phase = p, !.phase_log = Append(@, p)]

(* A faulty loop, which completes the waiting effects last first. *)
RECURSIVE complete_waiting_last_first(_)
complete_waiting_last_first(w0) ==
  With(w0, LAMBDA w :
  IF w.effects_waiting = << >> THEN w
  ELSE complete_waiting_last_first(
         [hd_transition_completed(
            w, w.effects_waiting[Len(w.effects_waiting)], FALSE)
            EXCEPT !.effects_waiting =
                     SubSeq(w.effects_waiting, 1,
                            Len(w.effects_waiting) - 1)]))

(* The while loop of the FADE_OUT case: complete the waiting effects. *)
RECURSIVE complete_waiting(_)
complete_waiting(w0) ==
  With(w0, LAMBDA w :
  IF w.effects_waiting = << >> THEN w
  ELSE complete_waiting(
         [hd_transition_completed(w, Head(w.effects_waiting), FALSE)
            EXCEPT !.effects_waiting = Tail(w.effects_waiting)]))

(* hd_transition_rotating_fsm *)
RECURSIVE hd_transition_rotating_fsm(_)
(* A faulty fade-in, which leaves the scene hidden. *)
fsm_fade_in_hidden(w) ==
  hd_transition_fade_and_rotate(
    set_phase(w, FADE_IN), FALSE, w.direction = GOTO_PORTRAIT, TRUE)

fsm_fade_in(w) ==
  hd_transition_fade_and_rotate(
    [set_phase(w, FADE_IN) EXCEPT !.hdrm_visible = TRUE],
    FALSE, w.direction = GOTO_PORTRAIT, TRUE)

(* Two faulty WAITING cases: one that goes back to FADE_OUT without        *)
(* re-entering the machine, one that fades in whatever was requested.      *)
fsm_case_WAITING_no_reentry(w) ==
  IF w.direction = w.new_direction
  THEN fsm_fade_in(w)
  ELSE set_phase([w EXCEPT !.direction = w.new_direction], FADE_OUT)

fsm_case_WAITING_always_fade_in(w) == fsm_fade_in(w)

(* A faulty WAITING case, which takes the direction asked for and fades in *)
(* with the screen as it is.                                               *)
fsm_case_WAITING_takes_direction(w) ==
  fsm_fade_in([w EXCEPT !.direction = w.new_direction])

fsm_case_WAITING(w) ==
  IF w.direction = w.new_direction
  THEN fsm_fade_in(w)
  ELSE hd_transition_rotating_fsm(
         set_phase([w EXCEPT !.direction = w.new_direction], FADE_OUT))

(* A faulty FADE_OUT case, which fades out again when another direction   *)
(* was asked for during the fade.                                          *)
fsm_case_FADE_OUT_fades_out_again(w) ==
  LET state == w.goto_state
      change_state ==
        IF w.new_direction = GOTO_PORTRAIT
        THEN STATE_IS_PORTRAIT(state) \/ STATE_IS_PORTRAIT_CAPABLE(state)
        ELSE ~STATE_IS_PORTRAIT(state) /\ state # HDRM_STATE_UNDEFINED
      w1 == IF change_state
            THEN hd_render_manager_set_state(
                   [w EXCEPT !.goto_state = HDRM_STATE_UNDEFINED], state)
            ELSE w
  IN With(complete_waiting(w1), LAMBDA w2 :
     IF w2.direction = w2.new_direction
     THEN LET w3 == [set_phase(w2, WAITING) EXCEPT !.hdrm_visible = FALSE]
              w4 == hd_util_change_screen_orientation(
                      w3, w3.direction = GOTO_PORTRAIT)
          IN [g_timeout_add(w4) EXCEPT !.timer = 0]
     ELSE hd_transition_fade_and_rotate(
            [set_phase(w2, FADE_OUT) EXCEPT !.direction = w2.new_direction],
            TRUE, w2.new_direction = GOTO_PORTRAIT, TRUE))

fsm_case_FADE_OUT(w) ==
  LET state == w.goto_state
      change_state ==
        IF w.new_direction = GOTO_PORTRAIT
        THEN STATE_IS_PORTRAIT(state) \/ STATE_IS_PORTRAIT_CAPABLE(state)
        ELSE ~STATE_IS_PORTRAIT(state) /\ state # HDRM_STATE_UNDEFINED
      w1 == IF change_state
            THEN hd_render_manager_set_state(
                   [w EXCEPT !.goto_state = HDRM_STATE_UNDEFINED], state)
            ELSE w
  IN With(complete_waiting(w1), LAMBDA w2 :
     IF w2.direction = w2.new_direction
     THEN LET w3 == [set_phase(w2, WAITING) EXCEPT !.hdrm_visible = FALSE]
              w4 == hd_util_change_screen_orientation(
                      w3, w3.direction = GOTO_PORTRAIT)
          IN [g_timeout_add(w4) EXCEPT !.timer = 0]
     ELSE \* fall through to case WAITING
          fsm_case_WAITING([w2 EXCEPT !.direction = w2.new_direction]))

(* The IDLE case entered with the direction already taken. *)
fsm_case_redirected(w) ==
  hd_transition_fade_and_rotate(
    set_phase(w, FADE_OUT), TRUE, w.new_direction = GOTO_PORTRAIT, TRUE)

(* What an invocation of the machine finds when it is entered; last.calls *)
(* has one entry for each invocation made in the step, the re-entrant ones *)
(* after the one that made them.                                           *)
fsm_entered(w) ==
  [ phase |-> w.phase, direction |-> w.direction,
    new_direction |-> w.new_direction ]

(* A faulty FADE_IN case, which takes the direction asked for before it    *)
(* enters the machine again.                                               *)
fsm_case_FADE_IN_adopts_direction(w) ==
  LET w1 == set_phase(w, IDLE)
  IN IF w1.direction # w1.new_direction
     THEN fsm_case_redirected(
            [w1 EXCEPT !.direction = w1.new_direction,
                       !.last.calls = Append(@,
                          [ phase |-> IDLE, direction |-> w1.new_direction,
                            new_direction |-> w1.new_direction ])])
     ELSE w1

(* A faulty FADE_IN case, which settles in IDLE whatever is asked for. *)
fsm_case_FADE_IN_settles(w) == set_phase(w, IDLE)

fsm_case_FADE_IN(w) ==
  LET w1 == set_phase(w, IDLE)
  IN IF w1.direction # w1.new_direction
     THEN hd_transition_rotating_fsm(w1) ELSE w1

hd_transition_rotating_fsm(w0) ==
  With([w0 EXCEPT !.timeout_id = 0, !.timer = NoTimer,
                  !.last.calls = Append(@, fsm_entered(w0))], LAMBDA w :
     CASE w.phase = IDLE ->
            hd_transition_fade_and_rotate(
              [set_phase(w, FADE_OUT) EXCEPT !.direction = w.new_direction],
              TRUE, w.new_direction = GOTO_PORTRAIT, TRUE)
       [] w.phase = FADE_OUT -> fsm_case_FADE_OUT(w)
       [] w.phase = WAITING -> fsm_case_WAITING(w)
       [] w.phase = FADE_IN -> fsm_case_FADE_IN(w))

(* A faulty hd_transition_rotate_screen, which drives the machine at any  *)
(* phase.                                                                  *)
rotate_screen_always_drives(w0, the_wm, goto_portrait) ==
  LET w == [w0 EXCEPT !.wm = the_wm,
                      !.new_direction = IF goto_portrait THEN GOTO_PORTRAIT
                                        ELSE GOTO_LANDSCAPE]
  IN IF w.phase = IDLE /\ goto_portrait = w.is_portrait
     THEN [w EXCEPT !.last.ret = "FALSE"]
     ELSE [hd_transition_rotating_fsm(w) EXCEPT !.last.ret = "TRUE"]

(* A faulty hd_transition_rotate_screen, which gives up the rotation when *)
(* the orientation the screen has is asked for during the fade-out.       *)
rotate_screen_cancels(w0, the_wm, goto_portrait) ==
  LET w == [w0 EXCEPT !.wm = the_wm,
                      !.new_direction = IF goto_portrait THEN GOTO_PORTRAIT
                                        ELSE GOTO_LANDSCAPE]
  IN IF w.phase = IDLE
     THEN IF goto_portrait = w.is_portrait
          THEN [w EXCEPT !.last.ret = "FALSE"]
          ELSE [hd_transition_rotating_fsm(w) EXCEPT !.last.ret = "TRUE"]
     ELSE IF w.phase = FADE_OUT /\ goto_portrait = w.is_portrait
          THEN [set_phase(w, IDLE) EXCEPT !.last.ret = "TRUE"]
          ELSE [w EXCEPT !.last.ret = "TRUE"]

(* A faulty hd_transition_rotate_screen, which takes a request for the     *)
(* orientation the screen has.                                             *)
rotate_screen_never_rejects(w0, the_wm, goto_portrait) ==
  LET w == [w0 EXCEPT !.wm = the_wm,
                      !.new_direction = IF goto_portrait THEN GOTO_PORTRAIT
                                        ELSE GOTO_LANDSCAPE]
  IN IF w.phase = IDLE
     THEN [hd_transition_rotating_fsm(w) EXCEPT !.last.ret = "TRUE"]
     ELSE [w EXCEPT !.last.ret = "TRUE"]

(* hd_transition_rotate_screen; the return value is left in last.ret. *)
hd_transition_rotate_screen(w0, the_wm, goto_portrait) ==
  LET w == [w0 EXCEPT !.wm = the_wm,
                      !.new_direction = IF goto_portrait THEN GOTO_PORTRAIT
                                        ELSE GOTO_LANDSCAPE]
  IN IF w.phase = IDLE
     THEN IF goto_portrait = w.is_portrait
          THEN [w EXCEPT !.last.ret = "FALSE"]
          ELSE [hd_transition_rotating_fsm(w) EXCEPT !.last.ret = "TRUE"]
     ELSE [w EXCEPT !.last.ret = "TRUE"]

(* hd_transition_rotate_screen_and_change_state *)
hd_transition_rotate_screen_and_change_state(w, state) ==
  [w EXCEPT !.goto_state = state]

(* A faulty comparison with the ceiling, which is never reached. *)
timer_always_below_ceiling(w) == TRUE

(* g_timer_elapsed < damage_timeout_max; a NULL timer reads as 0. *)
timer_below_ceiling(w) ==
  (IF w.timer = NoTimer THEN 0 ELSE w.timer) < CeilingTicks

(* A faulty hd_transition_rotate_ignore_damage, which stops ignoring the   *)
(* damage once the ceiling is reached.                                     *)
ignore_damage_until_ceiling(w) ==
  IF w.phase = WAITING /\ timer_below_ceiling(w)
  THEN [g_timeout_add(IF w.timeout_id # 0 THEN g_source_remove(w) ELSE w)
          EXCEPT !.last.ret = "TRUE"]
  ELSE [w EXCEPT !.last.ret = "FALSE"]

(* A faulty hd_transition_rotate_ignore_damage, which adds a timeout and   *)
(* leaves the one that is armed.                                           *)
ignore_damage_adds_source(w) ==
  IF w.phase = WAITING
  THEN LET w1 == IF timer_below_ceiling(w) THEN g_timeout_add(w) ELSE w
       IN [w1 EXCEPT !.last.ret = "TRUE"]
  ELSE [w EXCEPT !.last.ret = "FALSE"]

(* hd_transition_rotate_ignore_damage *)
hd_transition_rotate_ignore_damage(w) ==
  IF w.phase = WAITING
  THEN LET w1 == IF timer_below_ceiling(w)
                 THEN g_timeout_add(
                        IF w.timeout_id # 0 THEN g_source_remove(w) ELSE w)
                 ELSE w
       IN [w1 EXCEPT !.last.ret = "TRUE"]
  ELSE [w EXCEPT !.last.ret = "FALSE"]


----------------------------------------------------------------------------
(* The start operations of the effects on clients.  Each takes the lowest  *)
(* free slot for its g_new0 (HDEffectData, 1); with none free the world is *)
(* marked "no_slot" and the action that made the call is not taken.        *)

new_effect(w, data, nparticles) ==
  LET free == FreeSlots(w, ClientSlots)
  IN IF free = {}
     THEN [w EXCEPT !.fault = "no_slot"]
     ELSE LET r == Min(free)
              w1 == [w EXCEPT !.effects[r] =
                                 [data EXCEPT !.live = TRUE,
                                              !.particles = nparticles],
                              !.decor_actors[r] = nparticles,
                              !.timeline_refs[r] =
                                 IF data.timeline THEN 1 ELSE 0,
                              !.last.steps = Append(@, "record")]
              w2 == IF data.cclient # NULL
                    THEN client_ref(w1, data.cclient) ELSE w1
              w3 == IF data.cclient2 # NULL
                    THEN client_ref(w2, data.cclient2) ELSE w2
          IN actor_ref(actor_ref(w3, data.cclient_actor), data.cclient2_actor)

(* The slot new_effect has just filled. *)
new_slot(w) == Min(FreeSlots(w, ClientSlots))

running_flags == {DontUpdate, EffectRunning}

(* hd_transition_popup *)
hd_transition_popup(w, c, event) ==
  LET a == get_actor(w, c)
      r == new_slot(w)
  IN IF a = NULL THEN w
     ELSE LET w1 == new_effect(w, [NoEffect EXCEPT
                       !.kind = "popup", !.event = event, !.cclient = c,
                       !.cclient_actor = a, !.hmgr = TRUE,
                       !.timeline = TRUE], 1)
              w2 == set_flags(w1, c, running_flags)
              w3 == hd_comp_mgr_set_effect_running(w2, TRUE)
          IN IF w1.fault = "no_slot" THEN w1
             ELSE clutter_timeline_start(new_frame(w3, r, 0), r)

(* hd_transition_fade and hd_transition_notification differ in the handler *)
(* they connect and in the name of the transition; neither looks at the    *)
(* actor before it builds the record.                                      *)
(* A faulty start, which starts the timeline before the first frame. *)
start_before_first_frame(w, kind, c, event) ==
  LET r == new_slot(w)
      w1 == new_effect(w, [NoEffect EXCEPT
               !.kind = kind, !.event = event, !.cclient = c,
               !.cclient_actor = get_actor(w, c), !.hmgr = TRUE,
               !.timeline = TRUE], 0)
      w2 == set_flags(w1, c, running_flags)
      w3 == hd_comp_mgr_set_effect_running(w2, TRUE)
  IN IF w1.fault = "no_slot" THEN w1
     ELSE new_frame(clutter_timeline_start(w3, r), r, 0)

start_simple(w, kind, c, event) ==
  LET r == new_slot(w)
      w1 == new_effect(w, [NoEffect EXCEPT
               !.kind = kind, !.event = event, !.cclient = c,
               !.cclient_actor = get_actor(w, c), !.hmgr = TRUE,
               !.timeline = TRUE], 0)
      w2 == set_flags(w1, c, running_flags)
      w3 == hd_comp_mgr_set_effect_running(w2, TRUE)
  IN IF w1.fault = "no_slot" THEN w1
     ELSE clutter_timeline_start(new_frame(w3, r, 0), r)

hd_transition_fade(w, c, event) == start_simple(w, "fade", c, event)

hd_transition_notification(w, c, event) ==
  start_simple(w, "notification", c, event)

(* A faulty hd_transition_close_app, which does not ask whether the actor  *)
(* is visible.                                                             *)
close_app_of_hidden_actor(w, c, is_app, secondary, tiny, textures) ==
  LET a == get_actor(w, c)
      r == new_slot(w)
      n == IF textures THEN HDCM_UNMAP_PARTICLES ELSE 0
  IN IF \/ ~is_app
        \/ w.hdrm_state = HDRM_STATE_TASK_NAV
        \/ secondary
        \/ a = NULL
        \/ tiny
     THEN w
     ELSE LET w1 == new_effect(w, [NoEffect EXCEPT
                       !.kind = "close_app", !.event = EventUnmap,
                       !.cclient = c, !.cclient_actor = a, !.hmgr = TRUE,
                       !.timeline = TRUE], n)
              w2 == set_flags(w1, c, running_flags)
              w3 == actor_reparent(w2, a)
              w4 == hd_comp_mgr_set_effect_running(w3, TRUE)
          IN IF w1.fault = "no_slot" THEN w1
             ELSE [clutter_timeline_start(w4, r) EXCEPT !.last.sound = TRUE]

(* hd_transition_close_app.  is_app: the client's type is                  *)
(* MBWMClientTypeApp; secondary: stack_index > 0 and it is not the leader; *)
(* tiny: its width or height is below 16; textures: whether                *)
(* hd_clutter_cache_get_texture finds the particle image.                  *)
hd_transition_close_app(w, c, is_app, secondary, tiny, textures) ==
  LET a == get_actor(w, c)
      r == new_slot(w)
      n == IF textures THEN HDCM_UNMAP_PARTICLES ELSE 0
  IN IF \/ ~is_app
        \/ w.hdrm_state = HDRM_STATE_TASK_NAV
        \/ secondary
        \/ a = NULL
        \/ ~w.actor[c].visible
        \/ tiny
     THEN w
     ELSE LET w1 == new_effect(w, [NoEffect EXCEPT
                       !.kind = "close_app", !.event = EventUnmap,
                       !.cclient = c, !.cclient_actor = a, !.hmgr = TRUE,
                       !.timeline = TRUE], n)
              w2 == set_flags(w1, c, running_flags)
              w3 == actor_reparent(w2, a)
              w4 == hd_comp_mgr_set_effect_running(w3, TRUE)
          IN IF w1.fault = "no_slot" THEN w1
             ELSE [clutter_timeline_start(w4, r) EXCEPT !.last.sound = TRUE]

(* hd_transition_close_app_before_rotate: the record gets no timeline and  *)
(* waits in effects_waiting.                                               *)
hd_transition_close_app_before_rotate(w, c, is_app) ==
  LET a == get_actor(w, c)
      r == new_slot(w)
  IN IF \/ ~is_app
        \/ w.hdrm_state = HDRM_STATE_TASK_NAV
        \/ a = NULL
        \/ ~w.actor[c].visible
     THEN w
     ELSE LET w1 == new_effect(w, [NoEffect EXCEPT
                       !.kind = "close_before_rotate", !.event = EventUnmap,
                       !.cclient = c, !.cclient_actor = a, !.hmgr = TRUE], 1)
              w2 == set_flags(w1, c, {DontUpdate, DontShow, EffectRunning})
              w3 == actor_reparent(w2, a)
              w4 == [w3 EXCEPT !.effects_waiting = Append(@, r)]
              w5 == hd_comp_mgr_set_effect_running(w4, TRUE)
          IN IF w1.fault = "no_slot" THEN w1
             ELSE [w5 EXCEPT !.last.sound = TRUE]


----------------------------------------------------------------------------
(* hd_transition_subview: the replacement of the entering subview of a     *)
(* running Map transition by the new subview (a series of pushes) ...      *)
(* Two faulty replacements: one that keeps the reference on the client it *)
(* drops, one that leaves that client marked.                              *)
subview_replace_keeps_reference(w, r, cclient_subview) ==
  LET data == w.effects[r]
      w1 == actor_set_anchor(actor_hide(w, data.cclient_actor),
                             data.cclient_actor, 0)
      w2 == actor_unref(w1, data.cclient_actor)
      w3 == [w2 EXCEPT !.effect[data.cclient] = NULL]
      w4 == unset_flags(w3, data.cclient, running_flags)
      a == get_actor(w, cclient_subview)
      w6 == client_ref([w4 EXCEPT !.effects[r].cclient = cclient_subview,
                                  !.effects[r].cclient_actor = a],
                       cclient_subview)
      w7 == actor_ref(w6, a)
      w8 == set_flags(w7, cclient_subview, running_flags)
  IN [w8 EXCEPT !.effect[cclient_subview] = r]

subview_replace_keeps_marking(w, r, cclient_subview) ==
  LET data == w.effects[r]
      w1 == actor_set_anchor(actor_hide(w, data.cclient_actor),
                             data.cclient_actor, 0)
      w2 == actor_unref(w1, data.cclient_actor)
      w5 == client_unref(w2, data.cclient)
      a == get_actor(w, cclient_subview)
      w6 == client_ref([w5 EXCEPT !.effects[r].cclient = cclient_subview,
                                  !.effects[r].cclient_actor = a],
                       cclient_subview)
      w7 == actor_ref(w6, a)
      w8 == set_flags(w7, cclient_subview, running_flags)
  IN [w8 EXCEPT !.effect[cclient_subview] = r]

subview_replace_cclient(w, r, cclient_subview) ==
  LET data == w.effects[r]
      w1 == actor_set_anchor(actor_hide(w, data.cclient_actor),
                             data.cclient_actor, 0)
      w2 == actor_unref(w1, data.cclient_actor)
      w3 == [w2 EXCEPT !.effect[data.cclient] = NULL]
      w4 == unset_flags(w3, data.cclient, running_flags)
      w5 == client_unref(w4, data.cclient)
      a == get_actor(w, cclient_subview)
      w6 == client_ref([w5 EXCEPT !.effects[r].cclient = cclient_subview,
                                  !.effects[r].cclient_actor = a],
                       cclient_subview)
      w7 == actor_ref(w6, a)
      w8 == set_flags(w7, cclient_subview, running_flags)
  IN [w8 EXCEPT !.effect[cclient_subview] = r]

(* A faulty replacement of the main view, which leaves the effect pointer  *)
(* of the view it releases.                                                *)
subview_replace2_keeps_pointer(w, r, cclient_mainview) ==
  LET data == w.effects[r]
      w1 == actor_set_anchor(actor_hide(w, data.cclient2_actor),
                             data.cclient2_actor, 0)
      w2 == actor_unref(w1, data.cclient2_actor)
      w4 == unset_flags(w2, data.cclient2, running_flags)
      w5 == client_unref(w4, data.cclient2)
      a == get_actor(w, cclient_mainview)
      w6 == client_ref([w5 EXCEPT !.effects[r].cclient2 = cclient_mainview,
                                  !.effects[r].cclient2_actor = a],
                       cclient_mainview)
      w7 == actor_ref(w6, a)
      w8 == set_flags(w7, cclient_mainview, running_flags)
  IN [w8 EXCEPT !.effect[cclient_mainview] = r]

(* ... and of the main view of a running Unmap transition by the new main  *)
(* view (a series of pops).                                                *)
subview_replace_cclient2(w, r, cclient_mainview) ==
  LET data == w.effects[r]
      w1 == actor_set_anchor(actor_hide(w, data.cclient2_actor),
                             data.cclient2_actor, 0)
      w2 == actor_unref(w1, data.cclient2_actor)
      w3 == [w2 EXCEPT !.effect[data.cclient2] = NULL]
      w4 == unset_flags(w3, data.cclient2, running_flags)
      w5 == client_unref(w4, data.cclient2)
      a == get_actor(w, cclient_mainview)
      w6 == client_ref([w5 EXCEPT !.effects[r].cclient2 = cclient_mainview,
                                  !.effects[r].cclient2_actor = a],
                       cclient_mainview)
      w7 == actor_ref(w6, a)
      w8 == set_flags(w7, cclient_mainview, running_flags)
  IN [w8 EXCEPT !.effect[cclient_mainview] = r]

(* A read of *data through HdCompMgrClient::effect; a freed record reads   *)
(* as garbage, which the model marks as a fault.                           *)
effect_of(w, c) == w.effect[c]

(* Two faulty hd_transition_subview: one that starts a slide whatever runs *)
(* on the two views, one that lets a request through when both views are   *)
(* in a transition.                                                        *)
subview_always_starts(w, subview, mainview, event) ==
  LET r == new_slot(w)
  IN IF subview = mainview THEN w
     ELSE IF ~STATE_IS_APP(w.hdrm_state) THEN w
     ELSE LET w1 == new_effect(w, [NoEffect EXCEPT
                       !.kind = "subview", !.event = event,
                       !.cclient = subview,
                       !.cclient_actor = get_actor(w, subview),
                       !.cclient2 = mainview,
                       !.cclient2_actor = get_actor(w, mainview),
                       !.hmgr = TRUE, !.timeline = TRUE], 0)
              w2 == set_flags(set_flags(w1, subview, running_flags),
                              mainview, running_flags)
              w3 == hd_comp_mgr_set_effect_running(w2, TRUE)
              w4 == [w3 EXCEPT !.effect[mainview] = r, !.effect[subview] = r]
          IN IF w1.fault = "no_slot" THEN w1
             ELSE clutter_timeline_start(new_frame(w4, r, 0), r)

subview_without_both_check(w, subview, mainview, event) ==
  LET subview_in_trans == EffectRunning \in w.flags[subview]
      mainview_in_trans == EffectRunning \in w.flags[mainview]
      r == new_slot(w)
  IN IF subview = mainview THEN w
     ELSE IF ~STATE_IS_APP(w.hdrm_state) THEN w
     ELSE IF mainview_in_trans
     THEN LET d == effect_of(w, mainview)
          IN IF event = EventMap /\ d # NULL
             THEN IF ~w.effects[d].live
                  THEN [w EXCEPT !.fault = "use_after_free"]
                  ELSE IF /\ w.effects[d].event = EventMap
                          /\ w.effects[d].cclient = mainview
                       THEN subview_replace_cclient(w, d, subview)
                       ELSE w
             ELSE w
     ELSE IF subview_in_trans
     THEN LET d == effect_of(w, subview)
          IN IF event = EventUnmap /\ d # NULL
             THEN IF ~w.effects[d].live
                  THEN [w EXCEPT !.fault = "use_after_free"]
                  ELSE IF /\ w.effects[d].event = EventUnmap
                          /\ w.effects[d].cclient2 = subview
                       THEN subview_replace_cclient2(w, d, mainview)
                       ELSE w
             ELSE w
     ELSE LET w1 == new_effect(w, [NoEffect EXCEPT
                       !.kind = "subview", !.event = event,
                       !.cclient = subview,
                       !.cclient_actor = get_actor(w, subview),
                       !.cclient2 = mainview,
                       !.cclient2_actor = get_actor(w, mainview),
                       !.hmgr = TRUE, !.timeline = TRUE], 0)
              w2 == set_flags(set_flags(w1, subview, running_flags),
                              mainview, running_flags)
              w3 == hd_comp_mgr_set_effect_running(w2, TRUE)
              w4 == [w3 EXCEPT !.effect[mainview] = r, !.effect[subview] = r]
          IN IF w1.fault = "no_slot" THEN w1
             ELSE clutter_timeline_start(new_frame(w4, r, 0), r)

(* A faulty hd_transition_subview, which starts a slide of its own when   *)
(* one view is in a transition it cannot take over.                        *)
subview_starts_beside(w, subview, mainview, event) ==
  LET subview_in_trans == EffectRunning \in w.flags[subview]
      mainview_in_trans == EffectRunning \in w.flags[mainview]
      r == new_slot(w)
      d == effect_of(w, IF mainview_in_trans THEN mainview ELSE subview)
      started ==
        LET w1 == new_effect(w, [NoEffect EXCEPT
                    !.kind = "subview", !.event = event,
                    !.cclient = subview,
                    !.cclient_actor = get_actor(w, subview),
                    !.cclient2 = mainview,
                    !.cclient2_actor = get_actor(w, mainview),
                    !.hmgr = TRUE, !.timeline = TRUE], 0)
            w2 == set_flags(set_flags(w1, subview, running_flags),
                            mainview, running_flags)
            w3 == hd_comp_mgr_set_effect_running(w2, TRUE)
            w4 == [w3 EXCEPT !.effect[mainview] = r, !.effect[subview] = r]
        IN IF w1.fault = "no_slot" THEN w1
           ELSE clutter_timeline_start(new_frame(w4, r, 0), r)
  IN IF subview = mainview THEN w
     ELSE IF ~STATE_IS_APP(w.hdrm_state) THEN w
     ELSE IF subview_in_trans /\ mainview_in_trans THEN w
     ELSE IF mainview_in_trans /\ event = EventMap /\ d # NULL
             /\ w.effects[d].event = EventMap
             /\ w.effects[d].cclient = mainview
     THEN subview_replace_cclient(w, d, subview)
     ELSE IF subview_in_trans /\ event = EventUnmap /\ d # NULL
             /\ w.effects[d].event = EventUnmap
             /\ w.effects[d].cclient2 = subview
     THEN subview_replace_cclient2(w, d, mainview)
     ELSE started

hd_transition_subview(w, subview, mainview, event) ==
  LET subview_in_trans == EffectRunning \in w.flags[subview]
      mainview_in_trans == EffectRunning \in w.flags[mainview]
      r == new_slot(w)
  IN IF subview = mainview THEN w
     ELSE IF ~STATE_IS_APP(w.hdrm_state) THEN w
     ELSE IF subview_in_trans /\ mainview_in_trans THEN w
     ELSE IF mainview_in_trans
     THEN LET d == effect_of(w, mainview)
          IN IF event = EventMap /\ d # NULL
             THEN IF ~w.effects[d].live
                  THEN [w EXCEPT !.fault = "use_after_free"]
                  ELSE IF /\ w.effects[d].event = EventMap
                          /\ w.effects[d].cclient = mainview
                       THEN subview_replace_cclient(w, d, subview)
                       ELSE w
             ELSE w
     ELSE IF subview_in_trans
     THEN LET d == effect_of(w, subview)
          IN IF event = EventUnmap /\ d # NULL
             THEN IF ~w.effects[d].live
                  THEN [w EXCEPT !.fault = "use_after_free"]
                  ELSE IF /\ w.effects[d].event = EventUnmap
                          /\ w.effects[d].cclient2 = subview
                       THEN subview_replace_cclient2(w, d, mainview)
                       ELSE w
             ELSE w
     ELSE LET w1 == new_effect(w, [NoEffect EXCEPT
                       !.kind = "subview", !.event = event,
                       !.cclient = subview,
                       !.cclient_actor = get_actor(w, subview),
                       !.cclient2 = mainview,
                       !.cclient2_actor = get_actor(w, mainview),
                       !.hmgr = TRUE, !.timeline = TRUE], 0)
              w2 == set_flags(set_flags(w1, subview, running_flags),
                              mainview, running_flags)
              w3 == hd_comp_mgr_set_effect_running(w2, TRUE)
              w4 == [w3 EXCEPT !.effect[mainview] = r, !.effect[subview] = r]
          IN IF w1.fault = "no_slot" THEN w1
             ELSE clutter_timeline_start(new_frame(w4, r, 0), r)

(* Two faulty hd_transition_stop: one that leaves the timeline running,   *)
(* one that does not apply the last frame.                                 *)
stop_without_timeline_stop(w, c) ==
  LET d == effect_of(w, c)
  IN IF d = NULL THEN w
     ELSE IF ~w.effects[d].live
     THEN [w EXCEPT !.fault = "use_after_free"]
     ELSE hd_transition_completed(new_frame(w, d, NFrames), d, TRUE)

stop_without_last_frame(w, c) ==
  LET d == effect_of(w, c)
  IN IF d = NULL THEN w
     ELSE IF ~w.effects[d].live
     THEN [w EXCEPT !.fault = "use_after_free"]
     ELSE hd_transition_completed(clutter_timeline_stop(w, d), d, TRUE)

(* hd_transition_stop *)
hd_transition_stop(w, c) ==
  LET d == effect_of(w, c)
  IN IF d = NULL THEN w
     ELSE IF ~w.effects[d].live
     THEN [w EXCEPT !.fault = "use_after_free"]
     ELSE LET w1 == clutter_timeline_stop(w, d)
              w2 == new_frame(w1, d, NFrames)
          IN hd_transition_completed(w2, d, TRUE)

(* The timeline of slot r emits "new-frame" for its next frame. *)
timeline_new_frame(w, r) ==
  new_frame([w EXCEPT !.frame[r] = @ + 1], r, w.frame[r] + 1)

(* The timeline of slot r reaches its end: it stops, emits "new-frame" for *)
(* the last frame and then "completed", whose handlers run in the order    *)
(* they were connected: hd_transition_completed, then the                  *)
(* finished_callback.                                                      *)
timeline_completed(w, r) ==
  LET cb == w.effects[r].fsm_cb
      w1 == new_frame(clutter_timeline_stop(w, r), r, NFrames)
      w2 == hd_transition_completed(w1, r, TRUE)
  IN IF cb THEN hd_transition_rotating_fsm(w2) ELSE w2


----------------------------------------------------------------------------
(* The state after the program has started: the static Orientation_change  *)
(* is zeroed, no effect runs, the screen is in landscape and an            *)
(* application is shown.                                                   *)
NoCall ==
  [ op |-> "init", ret |-> "void", value |-> 0, torn |-> << >>,
    sound |-> FALSE, scene |-> {}, steps |-> << >>, calls |-> << >> ]

(* acts says of each client whether its actor is "shown", "hidden" or     *)
(* "none" (mb_wm_comp_mgr_clutter_client_get_actor gives NULL); state is  *)
(* the state of the render manager.  Both are set outside the transitions. *)
ActorStates == {"shown", "hidden", "none"}

Started(acts, state) ==
  /\ wm = "none"
  /\ direction = GOTO_LANDSCAPE /\ new_direction = GOTO_LANDSCAPE
  /\ phase = IDLE
  /\ goto_state = HDRM_STATE_UNDEFINED
  /\ timeout_id = 0 /\ timer = NoTimer
  /\ effects_waiting = << >>
  /\ effects = [r \in EffectIds |-> NoEffect]
  /\ timelines = [r \in EffectIds |-> "none"]
  /\ frame = [r \in EffectIds |-> 0]
  /\ timeline_refs = [r \in EffectIds |-> 0]
  /\ decor_actors = [r \in EffectIds |-> 0]
  /\ flags = [c \in Clients |-> {}]
  /\ effect = [c \in Clients |-> NULL]
  /\ refs = [c \in Clients |-> 0]
  /\ actor_refs = [c \in Clients |-> 0]
  /\ actor = [c \in Clients |->
                [InitActor EXCEPT !.visible = acts[c] # "hidden"]]
  /\ has_actor = [c \in Clients |-> acts[c] # "none"]
  /\ effect_running = 0
  /\ is_portrait = FALSE
  /\ hdrm_visible = TRUE
  /\ hdrm_state = state
  /\ sources = 0 /\ due = FALSE
  /\ ini = NoIni
  /\ req_log = << >> /\ phase_log = << >> /\ reconf_log = << >>
  /\ last = NoCall
  /\ fault = "none"

Init == Started([c \in Clients |-> "shown"], HDRM_STATE_APP)

(* The program started with any actors and in the application state or in *)
(* the task switcher.                                                      *)
InitStart ==
  \E acts \in [Clients -> ActorStates],
     state \in {HDRM_STATE_APP, HDRM_STATE_TASK_NAV} : Started(acts, state)

(* The world as a call named op finds it. *)
Call(op) == [World EXCEPT !.last = [NoCall EXCEPT !.op = op]]

(* The step of a call that found a slot for the record it allocates. *)
Done(w) == w.fault # "no_slot" /\ Becomes(w)

Events == {EventMap, EventUnmap}

(* The window manager asks for a rotation.  The histories req_log,         *)
(* phase_log and reconf_log are those of one rotation: they start again    *)
(* with each request that finds the machine idle, and MaxRequests bounds   *)
(* the requests made before the machine is idle again.                     *)
RotateScreen(goto_portrait) ==
  LET request == [goto_portrait |-> goto_portrait, phase |-> phase,
                  is_portrait |-> is_portrait]
      w == Call("rotate_screen")
  IN /\ phase = IDLE \/ Len(req_log) < MaxRequests
     /\ Becomes(hd_transition_rotate_screen(
          IF phase = IDLE
          THEN [w EXCEPT !.req_log = << request >>,
                         !.phase_log = << >>, !.reconf_log = << >>]
          ELSE [w EXCEPT !.req_log = Append(@, request)],
          "wm", goto_portrait))

RotateScreenAndChangeState(state) ==
  Becomes(hd_transition_rotate_screen_and_change_state(
            Call("change_state"), state))

(* A damage event arrives and the compositor asks whether to ignore it. *)
IgnoreDamage == Becomes(hd_transition_rotate_ignore_damage(Call("ignore_damage")))

(* Time passes: one damage_timeout interval. *)
ClockTick ==
  /\ \/ timer # NoTimer /\ timer < CeilingTicks
     \/ sources > 0 /\ ~due
  /\ Becomes([Call("tick") EXCEPT
       !.timer = IF @ # NoTimer /\ @ < CeilingTicks THEN @ + 1 ELSE @,
       !.due = sources > 0])

(* The debounce timeout calls the FSM, which returns FALSE: glib removes   *)
(* the source that fired.                                                  *)
TimeoutFires ==
  /\ sources > 0 /\ due
  /\ Becomes(With(hd_transition_rotating_fsm(Call("timeout")), LAMBDA w :
               [w EXCEPT !.sources = @ - 1,
                         !.due = IF w.sources - 1 = 0 THEN FALSE ELSE @]))

TimelineNewFrame(r) ==
  /\ timelines[r] = "running"
  /\ frame[r] + 1 < NFrames
  /\ Becomes(timeline_new_frame(Call("new_frame"), r))

TimelineCompleted(r) ==
  /\ timelines[r] = "running"
  /\ Becomes(timeline_completed(Call("completed"), r))

Popup(c, event) == Done(hd_transition_popup(Call("popup"), c, event))

Fade(c, event) == Done(hd_transition_fade(Call("fade"), c, event))

Notification(c, event) ==
  Done(hd_transition_notification(Call("notification"), c, event))

(* pre names the precondition the client fails, if any. *)
ClosePre == {"ok", "not_app", "secondary", "tiny"}
CloseApp(c, pre, textures) ==
  Done(hd_transition_close_app(Call("close_app"), c,
         pre # "not_app", pre = "secondary", pre = "tiny", textures))

CloseAppBeforeRotate(c, is_app) ==
  Done(hd_transition_close_app_before_rotate(
         Call("close_app_before_rotate"), c, is_app))

Subview(subview, mainview, event) ==
  Done(hd_transition_subview(Call("subview"), subview, mainview, event))

Stop(c) == Becomes(hd_transition_stop(Call("stop"), c))

(* transitions.ini is written in place (IN_MODIFY), or it is removed or    *)
(* replaced by another file (IN_DELETE_SELF, IN_MOVE_SELF).  One event     *)
(* waits to be read at a time.                                             *)
IniModified(file) ==
  /\ ini.file # Unreadable /\ ini.file # file /\ ini.event = "none"
  /\ Becomes([Call("ini_modified") EXCEPT
       !.ini.file = file,
       !.ini.event = IF ini.transitions_ini_watcher THEN "modify" ELSE @])

IniReplaced(file) ==
  /\ ini.file # file /\ ini.event = "none"
  /\ Becomes([Call("ini_replaced") EXCEPT
       !.ini.file = file,
       !.ini.event = IF ini.transitions_ini_watcher THEN "gone" ELSE @])

IniChanged ==
  /\ ini.event # "none"
  /\ Becomes(transitions_ini_changed(Call("ini_changed")))

IntDefaults == {250}
DoubleDefaults == {400}

GetInt(default_val, inotify_ok) ==
  Becomes(hd_transition_get_int(Call("get_int"), default_val, inotify_ok))

GetDouble(default_val, inotify_ok) ==
  Becomes(hd_transition_get_double(Call("get_double"), default_val,
                                   inotify_ok))

----------------------------------------------------------------------------
Next ==
  \/ \E gp \in BOOLEAN : RotateScreen(gp)
  \/ \E st \in HdrmStates : RotateScreenAndChangeState(st)
  \/ IgnoreDamage
  \/ ClockTick
  \/ TimeoutFires
  \/ \E r \in EffectIds : TimelineNewFrame(r)
  \/ \E r \in EffectIds : TimelineCompleted(r)
  \/ \E c \in Clients, ev \in Events : Popup(c, ev)
  \/ \E c \in Clients, ev \in Events : Fade(c, ev)
  \/ \E c \in Clients, ev \in Events : Notification(c, ev)
  \/ \E c \in Clients, pre \in ClosePre, x \in BOOLEAN : CloseApp(c, pre, x)
  \/ \E c \in Clients, a \in BOOLEAN : CloseAppBeforeRotate(c, a)
  \/ \E c, d \in Clients, ev \in Events : Subview(c, d, ev)
  \/ \E c \in Clients : Stop(c)
  \/ \E file \in IniFiles : IniModified(file)
  \/ \E file \in IniFiles \cup {Unreadable} : IniReplaced(file)
  \/ IniChanged
  \/ \E d \in IntDefaults, ok \in BOOLEAN : GetInt(d, ok)
  \/ \E d \in DoubleDefaults, ok \in BOOLEAN : GetDouble(d, ok)

Spec == Init /\ [][Next]_vars

(* The rotation machine with the effects it owns and the effects that wait *)
(* for it.                                                                 *)
NextRotation ==
  \/ \E gp \in BOOLEAN : RotateScreen(gp)
  \/ IgnoreDamage
  \/ ClockTick
  \/ TimeoutFires
  \/ \E r \in EffectIds : TimelineNewFrame(r)
  \/ \E r \in EffectIds : TimelineCompleted(r)
  \/ \E c \in PlainClients, a \in BOOLEAN : CloseAppBeforeRotate(c, a)

SpecRotation == Init /\ [][NextRotation]_vars

(* The rotation machine on its own. *)
NextMachine ==
  \/ \E gp \in BOOLEAN : RotateScreen(gp)
  \/ IgnoreDamage
  \/ ClockTick
  \/ TimeoutFires
  \/ \E r \in EffectIds : TimelineNewFrame(r)
  \/ \E r \in EffectIds : TimelineCompleted(r)

(* The glib main loop runs every source that is ready: time passes, a      *)
(* timeout that is due is dispatched, and a running timeline reaches its   *)
(* end.  The window manager's calls are under no obligation.               *)
MainLoopRuns ==
  /\ WF_vars(ClockTick)
  /\ WF_vars(TimeoutFires)
  /\ WF_vars(\E r \in EffectIds : TimelineCompleted(r))

SpecMachineFair == Init /\ [][NextMachine]_vars /\ MainLoopRuns

(* The effects on clients, with no rotation under way: every client may   *)
(* be a view, the plain clients get the other effects.                     *)
NextEffects ==
  \/ \E r \in EffectIds : TimelineNewFrame(r)
  \/ \E r \in EffectIds : TimelineCompleted(r)
  \/ \E c \in PlainClients, ev \in Events : Popup(c, ev)
  \/ \E c \in PlainClients, ev \in Events : Fade(c, ev)
  \/ \E c \in PlainClients, ev \in Events : Notification(c, ev)
  \/ \E c \in PlainClients, pre \in ClosePre, x \in BOOLEAN :
        CloseApp(c, pre, x)
  \/ \E c, d \in Clients, ev \in Events : Subview(c, d, ev)
  \/ \E c \in Clients : Stop(c)

SpecEffects == Init /\ [][NextEffects]_vars

(* The slides between the views of an application. *)
NextSubview ==
  \/ \E r \in EffectIds : TimelineNewFrame(r)
  \/ \E r \in EffectIds : TimelineCompleted(r)
  \/ \E c, d \in Clients, ev \in Events : Subview(c, d, ev)
  \/ \E c \in Clients : Stop(c)

SpecSubview == Init /\ [][NextSubview]_vars

(* A rotation asked for when the machine is idle. *)
RotateWhenIdle(goto_portrait) == phase = IDLE /\ RotateScreen(goto_portrait)

(* Every way a record ends: its timeline completes, hd_transition_stop,    *)
(* and the machine's FADE_OUT for the records that wait; with the slides   *)
(* that replace a client of a running record.                              *)
NextTeardown ==
  \/ \E gp \in BOOLEAN : RotateWhenIdle(gp)
  \/ ClockTick
  \/ TimeoutFires
  \/ \E r \in EffectIds : TimelineCompleted(r)
  \/ \E c \in PlainClients, a \in BOOLEAN : CloseAppBeforeRotate(c, a)
  \/ \E c, d \in Clients, ev \in Events : Subview(c, d, ev)
  \/ \E c \in Clients : Stop(c)

SpecTeardown == Init /\ [][NextTeardown]_vars

(* Every kind of record: the effects of the plain clients, the slides      *)
(* between the views, the records that wait for a rotation and the         *)
(* rotation's own fades.                                                   *)
NextKinds ==
  \/ \E gp \in BOOLEAN : RotateWhenIdle(gp)
  \/ ClockTick
  \/ TimeoutFires
  \/ \E r \in EffectIds : TimelineCompleted(r)
  \/ \E c \in PlainClients, a \in BOOLEAN : CloseAppBeforeRotate(c, a)
  \/ \E c \in PlainClients, ev \in Events : Popup(c, ev)
  \/ \E c \in PlainClients, ev \in Events : Fade(c, ev)
  \/ \E c \in PlainClients, ev \in Events : Notification(c, ev)
  \/ \E c \in PlainClients, pre \in ClosePre, x \in BOOLEAN :
        CloseApp(c, pre, x)
  \/ \E c, d \in ViewClients, ev \in Events : Subview(c, d, ev)
  \/ \E c \in Clients : Stop(c)

SpecKinds == Init /\ [][NextKinds]_vars

(* The rotation machine asked at any phase, the records that wait for it  *)
(* and a popup, whose record takes a slot and frees it when it completes,  *)
(* so that the waiting records are not in the order of their slots.        *)
NextDeferred ==
  \/ \E gp \in BOOLEAN : RotateScreen(gp)
  \/ ClockTick
  \/ TimeoutFires
  \/ \E r \in EffectIds : TimelineCompleted(r)
  \/ \E c \in PlainClients, a \in BOOLEAN : CloseAppBeforeRotate(c, a)
  \/ \E c \in PlainClients : Popup(c, EventMap)

SpecDeferred == Init /\ [][NextDeferred]_vars

(* The rotation machine with the requests for a state of the render       *)
(* manager, made at any phase.                                             *)
NextState ==
  \/ \E gp \in BOOLEAN : RotateScreen(gp)
  \/ \E st \in HdrmStates : RotateScreenAndChangeState(st)
  \/ ClockTick
  \/ TimeoutFires
  \/ \E r \in EffectIds : TimelineCompleted(r)

SpecState == Init /\ [][NextState]_vars

(* A state asked for while no rotation is under way. *)
ChangeStateWhenIdle(state) ==
  phase = IDLE /\ RotateScreenAndChangeState(state)

(* The rotation machine with the requests for a state made at IDLE only. *)
NextStateAtIdle ==
  \/ \E gp \in BOOLEAN : RotateScreen(gp)
  \/ \E st \in HdrmStates : ChangeStateWhenIdle(st)
  \/ ClockTick
  \/ TimeoutFires
  \/ \E r \in EffectIds : TimelineCompleted(r)

SpecStateAtIdle == Init /\ [][NextStateAtIdle]_vars

----------------------------------------------------------------------------
(* A slide asked for between two different clients. *)
SubviewOfTwo(subview, mainview, event) ==
  subview # mainview /\ Subview(subview, mainview, event)

(* The slides between two clients of which one may run another effect. *)
NextViews ==
  \/ \E r \in EffectIds : TimelineNewFrame(r)
  \/ \E r \in EffectIds : TimelineCompleted(r)
  \/ \E c \in PlainClients, ev \in Events : Popup(c, ev)
  \/ \E c \in PlainClients, ev \in Events : Notification(c, ev)
  \/ \E c, d \in Clients, ev \in Events : SubviewOfTwo(c, d, ev)

SpecViews == Init /\ [][NextViews]_vars

----------------------------------------------------------------------------
(* The settings read from transitions.ini while the file changes. *)
NextIni ==
  \/ \E file \in IniFiles : IniModified(file)
  \/ \E file \in IniFiles \cup {Unreadable} : IniReplaced(file)
  \/ IniChanged
  \/ \E d \in IntDefaults, ok \in BOOLEAN : GetInt(d, ok)
  \/ \E d \in DoubleDefaults, ok \in BOOLEAN : GetDouble(d, ok)

SpecIni == Init /\ [][NextIni]_vars

----------------------------------------------------------------------------
(* The operations that start an effect, on clients with and without an    *)
(* actor and in either state of the render manager.                        *)
NextStart ==
  \/ \E r \in EffectIds : TimelineCompleted(r)
  \/ \E c \in PlainClients, ev \in Events : Popup(c, ev)
  \/ \E c \in PlainClients, ev \in Events : Fade(c, ev)
  \/ \E c \in PlainClients, ev \in Events : Notification(c, ev)
  \/ \E c \in PlainClients, pre \in ClosePre, x \in BOOLEAN :
        CloseApp(c, pre, x)
  \/ \E c \in PlainClients, a \in BOOLEAN : CloseAppBeforeRotate(c, a)
  \/ \E c, d \in ViewClients, ev \in Events : Subview(c, d, ev)

SpecStart == InitStart /\ [][NextStart]_vars

----------------------------------------------------------------------------
(* Properties of the rotation machine. *)

IsPrefix(s, t) == Len(s) <= Len(t) /\ s = SubSeq(t, 1, Len(s))

Direction(goto_portrait) ==
  IF goto_portrait THEN GOTO_PORTRAIT ELSE GOTO_LANDSCAPE

(* The direction of the last request of the rotation under way. *)
LastRequested == Direction(req_log[Len(req_log)].goto_portrait)

(* The records of hd_transition_fade_and_rotate that are allocated. *)
RotationFades == { r \in EffectIds : effects[r].kind = "rotate" }

(* The machine is at rest with what was last asked for. *)
Converged ==
  /\ phase = IDLE
  /\ direction = new_direction
  /\ req_log # << >> => direction = LastRequested
  /\ sources = 0 /\ timeout_id = 0 /\ timer = NoTimer
  /\ RotationFades = {}

(* A phase other than IDLE has something armed that will call the machine: *)
(* a running fade or the debounce timeout.                                 *)
Driven ==
  phase # IDLE =>
    \/ \E r \in RotationFades : timelines[r] = "running" /\ effects[r].fsm_cb
    \/ sources > 0

(* C1: whatever requests were made and at whatever phases, when the fades  *)
(* complete and the debounce timeout is dispatched the machine comes to    *)
(* IDLE with direction the last requested one and nothing armed; it is     *)
(* never away from IDLE with nothing armed, so it cannot stay in the       *)
(* phases forever.                                                         *)
C1_Convergence == [](Driven) /\ ((phase # IDLE) ~> Converged)

(* C1's case: portrait asked from IDLE, landscape asked before the         *)
(* fade-out completed, and the machine back at IDLE in landscape.          *)
C1_Witness ==
  /\ Len(req_log) = 2
  /\ req_log[1] = [goto_portrait |-> TRUE, phase |-> IDLE,
                   is_portrait |-> FALSE]
  /\ req_log[2].goto_portrait = FALSE /\ req_log[2].phase = FADE_OUT
  /\ phase = IDLE /\ direction = GOTO_LANDSCAPE
  /\ phase_log # << >> /\ phase_log[Len(phase_log)] = IDLE

(* One request for portrait that found the machine idle and the screen in  *)
(* landscape, and none since.                                              *)
OnePortraitRequest ==
  req_log = << [goto_portrait |-> TRUE, phase |-> IDLE,
                is_portrait |-> FALSE] >>

(* C2: after one request for portrait from IDLE in landscape the phases    *)
(* entered are FADE_OUT, WAITING, FADE_IN, IDLE in this order, the         *)
(* machine is in the last of them, and when it is back at IDLE direction   *)
(* is portrait and the screen was reconfigured once, to portrait.          *)
C2_SingleRotation ==
  OnePortraitRequest =>
    /\ phase_log # << >>
    /\ IsPrefix(phase_log, << FADE_OUT, WAITING, FADE_IN, IDLE >>)
    /\ phase = phase_log[Len(phase_log)]
    /\ reconf_log = IF Len(phase_log) >= 2 THEN << TRUE >> ELSE << >>
    /\ direction = GOTO_PORTRAIT
    /\ phase = IDLE => is_portrait

C2_Witness ==
  /\ OnePortraitRequest
  /\ phase_log = << FADE_OUT, WAITING, FADE_IN, IDLE >>
  /\ phase = IDLE /\ direction = GOTO_PORTRAIT
  /\ reconf_log = << TRUE >>

(* Portrait asked from IDLE in landscape, then landscape asked during      *)
(* WAITING, and nothing since.                                             *)
PortraitThenLandscapeWhileWaiting ==
  /\ Len(req_log) = 2
  /\ req_log[1] = [goto_portrait |-> TRUE, phase |-> IDLE,
                   is_portrait |-> FALSE]
  /\ req_log[2].goto_portrait = FALSE /\ req_log[2].phase = WAITING

(* C3: when landscape is asked during the WAITING of a rotation to         *)
(* portrait, the timeout does not start the fade-in: the machine passes    *)
(* FADE_OUT again with direction landscape, reconfigures the screen a      *)
(* second time, to landscape, waits again, and ends at IDLE in landscape.  *)
C3_ReverseWhileWaiting ==
  PortraitThenLandscapeWhileWaiting =>
    /\ IsPrefix(phase_log,
                << FADE_OUT, WAITING, FADE_OUT, WAITING, FADE_IN, IDLE >>)
    /\ Len(phase_log) \in {2, 4, 5, 6}
    /\ phase = phase_log[Len(phase_log)]
    /\ reconf_log = IF Len(phase_log) = 2 THEN << TRUE >>
                                          ELSE << TRUE, FALSE >>
    /\ direction = IF Len(phase_log) = 2 THEN GOTO_PORTRAIT
                                         ELSE GOTO_LANDSCAPE
    /\ phase = IDLE => ~is_portrait

C3_Witness ==
  /\ PortraitThenLandscapeWhileWaiting
  /\ phase_log = << FADE_OUT, WAITING, FADE_OUT, WAITING, FADE_IN, IDLE >>
  /\ reconf_log = << TRUE, FALSE >>
  /\ phase = IDLE /\ direction = GOTO_LANDSCAPE

(* C4: a call of hd_transition_rotate_screen at a phase other than IDLE    *)
(* returns TRUE and changes new_direction and the stored wm only: the      *)
(* phase, the direction, the pending state, the timeout and the timer,     *)
(* the records and their timelines are as before and the screen is not     *)
(* reconfigured.                                                           *)
C4_RequestWhileBusy ==
  [][ (phase # IDLE /\ last'.op = "rotate_screen") =>
        /\ last'.ret = "TRUE"
        /\ new_direction' = Direction(req_log'[Len(req_log')].goto_portrait)
        /\ wm' = "wm"
        /\ UNCHANGED << direction, phase, goto_state, timeout_id, timer,
                        sources, due, effects_waiting, effects, timelines,
                        frame, timeline_refs, decor_actors, flags, effect,
                        refs, actor_refs, actor, effect_running, is_portrait,
                        hdrm_visible, hdrm_state, phase_log, reconf_log,
                        fault >> ]_vars

(* C4's case: the opposite direction asked during WAITING. *)
C4_Witness ==
  /\ last.op = "rotate_screen" /\ last.ret = "TRUE"
  /\ phase = WAITING
  /\ req_log[Len(req_log)].phase = WAITING
  /\ new_direction # direction

(* A step that is a refused request: a call of hd_transition_rotate_screen *)
(* at IDLE for the orientation the screen has.                             *)
RefusedRequest ==
  /\ last'.op = "rotate_screen"
  /\ phase = IDLE
  /\ req_log'[Len(req_log')].goto_portrait = is_portrait

(* C5 as stated: the refused request returns FALSE and leaves every field  *)
(* of Orientation_change as it was, the stored handle included.            *)
C5_RejectedMutatesNothing ==
  [][ RefusedRequest =>
        /\ last'.ret = "FALSE"
        /\ UNCHANGED << wm, direction, new_direction, phase, goto_state,
                        timeout_id, timer, effects_waiting >> ]_vars

(* C5: a request at IDLE for the orientation the screen has returns FALSE  *)
(* and changes no field of Orientation_change but wm, which holds the      *)
(* caller's handle after the call; no effect is started.                   *)
C5_RejectedStoresHandle ==
  [][ RefusedRequest =>
        /\ last'.ret = "FALSE"
        /\ wm' = "wm"
        /\ UNCHANGED << direction, new_direction, phase, goto_state,
                        timeout_id, timer, effects_waiting, effects,
                        timelines, sources, due, is_portrait,
                        effect_running >> ]_vars

(* C5's case: the first call of all asks for landscape in landscape. *)
C5_Witness ==
  /\ last.op = "rotate_screen" /\ last.ret = "FALSE"
  /\ phase = IDLE /\ wm = "wm"
  /\ req_log = << [goto_portrait |-> FALSE, phase |-> IDLE,
                   is_portrait |-> FALSE] >>

----------------------------------------------------------------------------
(* Properties of the effect records and their teardown. *)

LiveEffects == { r \in EffectIds : effects[r].live }

Range(s) == { s[i] : i \in DOMAIN s }

(* The fields of the live records that point at client c, and those that   *)
(* point at its actor.                                                     *)
ClientFields(c) ==
  { << r, f >> \in LiveEffects \X {"cclient", "cclient2"} :
      effects[r][f] = c }
ActorFields(c) ==
  { << r, f >> \in LiveEffects \X {"cclient_actor", "cclient2_actor"} :
      effects[r][f] = c }

(* C6: no record is torn down twice, on any path.  No teardown has found   *)
(* a freed record and no read through a client's effect pointer has; a     *)
(* running timeline belongs to a live record, so no callback of a timeline *)
(* runs on a freed one; a client's effect pointer and the list of waiting  *)
(* effects name live records, each once; one call tears a record down once *)
(* at most; a freed record holds no decoration actor and a live one holds  *)
(* those it was given; the effect counter is the number of live records    *)
(* with a manager.                                                         *)
C6_TornDownOnce ==
  /\ fault = "none"
  /\ \A r \in EffectIds :
       /\ timelines[r] = "running" => effects[r].live /\ effects[r].timeline
       /\ decor_actors[r] = effects[r].particles
       /\ ~effects[r].live => effects[r] = NoEffect
  /\ \A c \in Clients : effect[c] # NULL => effect[c] \in LiveEffects
  /\ Range(effects_waiting) \subseteq LiveEffects
  /\ Cardinality(Range(effects_waiting)) = Len(effects_waiting)
  /\ Cardinality({ e.slot : e \in Range(last.torn) }) = Len(last.torn)
  /\ effect_running = Cardinality({ r \in LiveEffects : effects[r].hmgr })

(* C6's case: hd_transition_stop has torn down the record of a slide       *)
(* while another record waits for a rotation.                              *)
C6_Witness ==
  /\ last.op = "stop"
  /\ Len(last.torn) = 1
  /\ timelines[last.torn[1].slot] = "none"
  /\ ~effects[last.torn[1].slot].live
  /\ effects_waiting # << >>
  /\ effect_running = Len(effects_waiting)

(* C7: the references the records hold on a client are as many as the      *)
(* fields of live records that point at it, and so are those on its        *)
(* actor; no reference is held on a client or actor that no record points  *)
(* at.                                                                     *)
C7_ReferencesBalanced ==
  \A c \in Clients :
    /\ refs[c] = Cardinality(ClientFields(c))
    /\ actor_refs[c] = Cardinality(ActorFields(c))

(* C7's case: a slide was stopped after its entering client was replaced,  *)
(* while another effect runs on the client it started from; the only       *)
(* references left are that effect's.                                      *)
C7_Witness ==
  /\ last.op = "stop"
  /\ Len(last.torn) = 1 /\ last.torn[1].kind = "subview"
  /\ \E c \in Clients :
       /\ c \notin last.torn[1].clients
       /\ ~actor[c].visible /\ refs[c] = 0 /\ actor_refs[c] = 0
  /\ \E c \in last.torn[1].clients : refs[c] = 1 /\ actor_refs[c] = 1

(* What every teardown of a call did: it cleared the marking of the        *)
(* clients of the record and released the decoration actors it held.       *)
TeardownClears ==
  \A e \in Range(last.torn) :
    /\ \A c \in e.clients :
         /\ flags[c] \cap {DontUpdate, EffectRunning} = {}
         /\ effect[c] = NULL
    /\ e.kind \in {"popup", "fade", "notification", "close_app",
                   "close_before_rotate"} => Cardinality(e.clients) = 1
    /\ e.kind = "subview" => Cardinality(e.clients) = 2
    /\ e.kind = "rotate" => e.clients = {}
    /\ e.particles >= 0

NoLeftovers ==
  \A r \in EffectIds :
    /\ decor_actors[r] = effects[r].particles
    /\ timeline_refs[r] = IF effects[r].timeline THEN 1 ELSE 0

(* C8 as stated: every teardown, of a record of any kind, releases the     *)
(* record's timeline and tells the manager, besides clearing the marking   *)
(* and releasing the decoration actors.                                    *)
C8_TeardownDoesAllFour ==
  /\ TeardownClears
  /\ NoLeftovers
  /\ \A e \in Range(last.torn) : e.timer /\ e.manager

(* C8: every teardown clears the marking of the record's clients and       *)
(* releases its decoration actors; it releases the timeline of every       *)
(* record but those that wait for a rotation, which have none; it tells    *)
(* the manager for every record but the rotation's fades, which have no    *)
(* manager and were never counted.                                         *)
C8_TeardownByKind ==
  /\ TeardownClears
  /\ NoLeftovers
  /\ \A e \in Range(last.torn) :
       /\ e.timer <=> e.kind # "close_before_rotate"
       /\ e.manager <=> e.kind # "rotate"
  /\ effect_running = Cardinality({ r \in LiveEffects : effects[r].hmgr })

(* C8's case: the fade-out of a rotation has completed and with it a       *)
(* record that waited was torn down.                                       *)
C8_Witness ==
  /\ last.op = "completed"
  /\ Len(last.torn) = 2
  /\ last.torn[1].kind = "rotate" /\ ~last.torn[1].manager
  /\ last.torn[1].particles = 1
  /\ last.torn[2].kind = "close_before_rotate" /\ ~last.torn[2].timer
  /\ last.torn[2].manager
  /\ phase = WAITING

(* The step leaves the program as the completion of the timeline of        *)
(* record r would: every variable but the record of the call.              *)
AsCompleted(r) ==
  \E v \in { timeline_completed(Call("completed"), r) } :
    /\ effects' = v.effects /\ timelines' = v.timelines /\ frame' = v.frame
    /\ timeline_refs' = v.timeline_refs /\ decor_actors' = v.decor_actors
    /\ flags' = v.flags /\ effect' = v.effect /\ refs' = v.refs
    /\ actor_refs' = v.actor_refs /\ actor' = v.actor
    /\ effect_running' = v.effect_running /\ fault' = v.fault
    /\ last'.torn = v.last.torn /\ last'.scene = v.last.scene

(* The records that run an effect on client c. *)
RunningOn(c) ==
  { r \in LiveEffects :
      /\ c \in {effects[r].cclient, effects[r].cclient2}
      /\ timelines[r] = "running" }

C10_PushCoalesced ==
  [][ \A a, b, c \in Clients, r \in EffectIds :
        ( /\ effects[r].live /\ effects[r].kind = "subview"
          /\ effects[r].event = EventMap
          /\ effects[r].cclient = b /\ effects[r].cclient2 = a
          /\ effect[b] = r
          /\ LiveEffects = {r} /\ effect_running = 1
          /\ c \notin {a, b} /\ EffectRunning \notin flags[c]
          /\ last'.op = "subview"
          /\ Subview(c, b, EventMap) ) =>
        /\ LiveEffects' = {r}
        /\ effects'[r].cclient = c /\ effects'[r].cclient2 = a
        /\ effects'[r].cclient_actor = c
        /\ flags'[b] \cap {DontUpdate, EffectRunning} = {}
        /\ effect'[b] = NULL
        /\ refs'[b] = 0 /\ actor_refs'[b] = 0
        /\ {DontUpdate, EffectRunning} \subseteq flags'[a] \cap flags'[c]
        /\ effect'[a] = r /\ effect'[c] = r
        /\ refs'[a] = 1 /\ refs'[c] = 1
        /\ effect_running' = 1
        /\ timelines'[r] = "running" /\ frame' = frame ]_vars

(* C10's case: push from 1 to 2, then from 2 to 3 while the slide runs. *)
C10_Witness ==
  /\ last.op = "subview"
  /\ \E r \in EffectIds :
       /\ LiveEffects = {r}
       /\ effects[r].event = EventMap
       /\ effects[r].cclient = 3 /\ effects[r].cclient2 = 1
       /\ timelines[r] = "running"
  /\ effect[2] = NULL /\ flags[2] = {} /\ refs[2] = 0
  /\ ~actor[2].visible
  /\ effect_running = 1

(* C11: when the view b that the one running slide returns to from c is    *)
(* itself left for a view a, that record is still the only one and goes    *)
(* on with c leaving for a: b is unmarked, has no effect pointer and its   *)
(* reference is released; a and c are marked and point at the record, c    *)
(* is still its cclient; the effect counter is still 1.                    *)
C11_PopCoalesced ==
  [][ \A a, b, c \in Clients, r \in EffectIds :
        ( /\ effects[r].live /\ effects[r].kind = "subview"
          /\ effects[r].event = EventUnmap
          /\ effects[r].cclient = c /\ effects[r].cclient2 = b
          /\ effect[b] = r
          /\ LiveEffects = {r} /\ effect_running = 1
          /\ a \notin {b, c} /\ EffectRunning \notin flags[a]
          /\ last'.op = "subview"
          /\ Subview(b, a, EventUnmap) ) =>
        /\ LiveEffects' = {r}
        /\ effects'[r].cclient = c /\ effects'[r].cclient2 = a
        /\ effects'[r].cclient_actor = c /\ effects'[r].cclient2_actor = a
        /\ effects'[r].event = EventUnmap
        /\ flags'[b] \cap {DontUpdate, EffectRunning} = {}
        /\ effect'[b] = NULL
        /\ refs'[b] = 0 /\ actor_refs'[b] = 0
        /\ {DontUpdate, EffectRunning} \subseteq flags'[a] \cap flags'[c]
        /\ effect'[a] = r /\ effect'[c] = r
        /\ refs'[a] = 1 /\ refs'[c] = 1
        /\ effect_running' = 1
        /\ timelines'[r] = "running" /\ frame' = frame ]_vars

(* C11's case: pop from 3 to 2, then from 2 to 1 while the slide runs. *)
C11_Witness ==
  /\ last.op = "subview"
  /\ \E r \in EffectIds :
       /\ LiveEffects = {r}
       /\ effects[r].event = EventUnmap
       /\ effects[r].cclient = 3 /\ effects[r].cclient2 = 1
       /\ timelines[r] = "running"
  /\ effect[2] = NULL /\ flags[2] = {} /\ refs[2] = 0
  /\ ~actor[2].visible
  /\ effect_running = 1

(* C12: a call of hd_transition_subview whose two views both have          *)
(* EffectRunning set changes nothing: no record, timeline, flag, effect    *)
(* pointer, reference, actor or the effect counter.                        *)
C12_BothInTransitionDropped ==
  [][ \A s, m \in Clients, ev \in Events :
        ( /\ EffectRunning \in flags[s] /\ EffectRunning \in flags[m]
          /\ last'.op = "subview"
          /\ Subview(s, m, ev) ) =>
        UNCHANGED << effects, timelines, frame, timeline_refs,
                     decor_actors, flags, effect, refs, actor_refs, actor,
                     effect_running, fault >> ]_vars

(* C12's case: the call was made for the two views of a running slide,     *)
(* against its direction, and the slide is as it was started.              *)
C12_Witness ==
  /\ last.op = "subview" /\ last.torn = << >>
  /\ \E r \in EffectIds, s, m \in Clients :
       /\ s # m
       /\ LiveEffects = {r} /\ effects[r].kind = "subview"
       /\ effects[r].cclient = s /\ effects[r].cclient2 = m
       /\ effect[s] = r /\ effect[m] = r
       /\ frame[r] > 0
  /\ effect_running = 1

(* The live records of slides of which client c is an end. *)
SlidesOf(c) ==
  { r \in LiveEffects :
      /\ effects[r].kind = "subview"
      /\ c \in {effects[r].cclient, effects[r].cclient2} }

(* C13: with slides only, started, replaced, completed and stopped in any  *)
(* order, a client is an end of one live slide at most; the two ends of a  *)
(* slide are two clients, both marked and pointing at it.                  *)
C13_OneSlidePerClient ==
  /\ \A c \in Clients : Cardinality(SlidesOf(c)) <= 1
  /\ \A r \in LiveEffects :
       /\ effects[r].kind = "subview"
       /\ effects[r].cclient # effects[r].cclient2
       /\ \A c \in {effects[r].cclient, effects[r].cclient2} :
            effect[c] = r /\ EffectRunning \in flags[c]

(* C13's case: a request was made while the one slide, from 1 back to 3,   *)
(* is at its last frame, and it started nothing; view 2, which an earlier  *)
(* request took out of a slide, is an end of none.                         *)
C13_Witness ==
  /\ last.op = "subview"
  /\ \E r \in EffectIds :
       /\ LiveEffects = {r}
       /\ effects[r].event = EventUnmap
       /\ effects[r].cclient = 1 /\ effects[r].cclient2 = 3
       /\ timelines[r] = "running" /\ frame[r] = NFrames - 1
  /\ SlidesOf(2) = {} /\ ~actor[2].visible /\ flags[2] = {}

----------------------------------------------------------------------------
(* Properties of the idle machine, the waiting records and the debounce.   *)

(* No timeout of the machine is armed and no GTimer is allocated. *)
NoTimers == timeout_id = 0 /\ sources = 0 /\ timer = NoTimer

(* C14 as stated: at IDLE no timer is pending and no record waits, with    *)
(* hd_transition_close_app_before_rotate called at any phase.              *)
C14_IdleHasNothingPending ==
  phase = IDLE => NoTimers /\ effects_waiting = << >>

(* C14: at IDLE no debounce timeout is armed and no GTimer is allocated.   *)
(* effects_waiting is another matter: hd_transition_close_app_before_rotate*)
(* appends to it at any phase, IDLE included, and only the FADE_OUT case   *)
(* of the machine empties it, so a record deferred at IDLE, or after the   *)
(* fade-out of a rotation, waits at IDLE.                                  *)
C14_IdleHasNoTimers ==
  /\ [](phase = IDLE => NoTimers)
  /\ [][ effects_waiting' # effects_waiting =>
           \/ /\ last'.op = "close_app_before_rotate"
              /\ Len(effects_waiting') = Len(effects_waiting) + 1
              /\ SubSeq(effects_waiting', 1, Len(effects_waiting))
                   = effects_waiting
           \/ /\ effects_waiting' = << >>
              /\ \/ phase = FADE_OUT /\ last'.op = "completed"
                 \/ /\ phase = WAITING /\ last'.op = "timeout"
                    /\ direction # new_direction ]_vars

(* C14's case: the fade-in of a rotation has completed and the machine is  *)
(* at IDLE with nothing armed, while a record deferred after the fade-out  *)
(* waits.                                                                  *)
C14_Witness ==
  /\ last.op = "completed"
  /\ phase = IDLE /\ NoTimers
  /\ phase_log = << FADE_OUT, WAITING, FADE_IN, IDLE >>
  /\ effects_waiting # << >>

(* A step in which the FADE_OUT case of the machine runs: the timeline of  *)
(* the fade-out has completed, or the timeout found in WAITING that        *)
(* another direction was asked for and the machine passed FADE_OUT again.  *)
FadeOutCase ==
  \/ /\ phase = FADE_OUT /\ last'.op = "completed"
     /\ last'.torn # << >> /\ last'.torn[1].kind = "rotate"
  \/ phase = WAITING /\ last'.op = "timeout" /\ direction # new_direction

(* C15: when the FADE_OUT case runs, whatever direction is asked for by    *)
(* then, the records of effects_waiting are torn down one after the other  *)
(* in the order of the list, each once, after the record of the fade       *)
(* itself; each is freed with its decoration actor released, its client    *)
(* unmarked and the manager told; the list is empty afterwards.            *)
C15_WaitingDrainedInOrder ==
  [][ FadeOutCase =>
        LET own == Len(last'.torn) - Len(effects_waiting)
        IN /\ own = IF last'.op = "completed" THEN 1 ELSE 0
           /\ \A i \in 1..Len(effects_waiting) :
                /\ last'.torn[own + i].slot = effects_waiting[i]
                /\ last'.torn[own + i].kind = "close_before_rotate"
                /\ last'.torn[own + i].clients
                     = {effects[effects_waiting[i]].cclient}
                /\ last'.torn[own + i].manager
                /\ last'.torn[own + i].particles = 1
                /\ ~effects'[effects_waiting[i]].live
                /\ decor_actors'[effects_waiting[i]] = 0
           /\ effect_running' = effect_running - Len(effects_waiting)
           /\ effects_waiting' = << >>
           /\ fault' = "none" ]_vars

(* C15's case: landscape was asked for during the fade-out to portrait;    *)
(* the fade-out has completed and tore down the two records that waited,   *)
(* the one in the second slot first as it was deferred first.              *)
C15_Witness ==
  /\ last.op = "completed"
  /\ phase_log = << FADE_OUT, FADE_IN >>
  /\ Len(req_log) = 2
  /\ Len(last.torn) = 3
  /\ last.torn[1].kind = "rotate"
  /\ last.torn[2].slot = 2 /\ last.torn[3].slot = 1
  /\ effects_waiting = << >>
  /\ effect_running = 0

(* C16: hd_transition_rotate_ignore_damage returns TRUE when the phase is  *)
(* WAITING, before the ceiling and after it, and FALSE at every other      *)
(* phase, where it changes nothing of Orientation_change, of the timeout   *)
(* or of anything else.                                                    *)
C16_IgnoreDamageInWaiting ==
  [][ last'.op = "ignore_damage" =>
        /\ last'.ret = IF phase = WAITING THEN "TRUE" ELSE "FALSE"
        /\ phase # WAITING =>
             UNCHANGED << wm, direction, new_direction, phase, goto_state,
                          timeout_id, timer, effects_waiting, sources, due,
                          effects, timelines, frame, timeline_refs,
                          decor_actors, flags, effect, refs, actor_refs,
                          actor, effect_running, is_portrait, hdrm_visible,
                          hdrm_state, req_log, phase_log, reconf_log,
                          fault >> ]_vars

(* C16's case: the call was made in WAITING with the ceiling reached, and  *)
(* returned TRUE.                                                          *)
C16_Witness ==
  /\ last.op = "ignore_damage" /\ last.ret = "TRUE"
  /\ phase = WAITING
  /\ timer = CeilingTicks

(* C17: in WAITING one timeout is armed.  A damage notification before the *)
(* ceiling removes it and arms one in its place, which is not due; from    *)
(* the ceiling on a notification leaves the timeout as it is.  With the    *)
(* main loop running, the machine leaves WAITING however the notifications *)
(* arrive.                                                                 *)
C17_DebounceHasCeiling ==
  /\ [](phase = WAITING => sources = 1 /\ timeout_id # 0 /\ timer # NoTimer)
  /\ [][ (phase = WAITING /\ last'.op = "ignore_damage") =>
           /\ phase' = WAITING /\ timer' = timer
           /\ IF timer < CeilingTicks
              THEN sources' = 1 /\ timeout_id' # 0 /\ ~due'
              ELSE UNCHANGED << sources, timeout_id, due >> ]_vars
  /\ (phase = WAITING) ~> (phase # WAITING)

(* C17's case: the timeout was due, a damage notification came before the  *)
(* ceiling, and the timeout armed in its place is not due.                 *)
C17_Witness ==
  /\ last.op = "ignore_damage" /\ last.ret = "TRUE"
  /\ phase = WAITING
  /\ timer > 0 /\ timer < CeilingTicks
  /\ sources = 1 /\ ~due

----------------------------------------------------------------------------
(* Properties of the state asked for with the rotation. *)

(* The state s can be switched to on the way to direction d: the test of   *)
(* the FADE_OUT case.                                                      *)
ValidFor(s, d) ==
  IF d = GOTO_PORTRAIT
  THEN STATE_IS_PORTRAIT(s) \/ STATE_IS_PORTRAIT_CAPABLE(s)
  ELSE ~STATE_IS_PORTRAIT(s) /\ s # HDRM_STATE_UNDEFINED

(* C18: when the FADE_OUT case runs, the state in goto_state is switched   *)
(* to if it is valid for new_direction and goto_state is then              *)
(* HDRM_STATE_UNDEFINED; if it is not valid the render manager's state is  *)
(* left alone and goto_state is HDRM_STATE_UNDEFINED all the same, so that *)
(* no later pass applies it.                                               *)
C18_InvalidPendingDropped ==
  [][ FadeOutCase =>
        /\ goto_state' = HDRM_STATE_UNDEFINED
        /\ hdrm_state' = IF ValidFor(goto_state, new_direction)
                         THEN goto_state ELSE hdrm_state ]_vars

(* C18's case: APP_PORTRAIT was asked for on the way to landscape, was not *)
(* switched to when the fade-out completed, and is still in goto_state.    *)
C18_Witness ==
  /\ last.op = "completed"
  /\ phase = WAITING /\ direction = GOTO_LANDSCAPE
  /\ goto_state = HDRM_STATE_APP_PORTRAIT
  /\ hdrm_state = HDRM_STATE_APP

(* C19: with states asked for at IDLE only, the render manager is never    *)
(* switched: it stays in the state it started in, whatever rotations       *)
(* follow.                                                                 *)
C19_IdleRequestNeverApplied == hdrm_state = HDRM_STATE_APP

(* C19's case: a state asked for at IDLE was switched to when the fade-out *)
(* of the rotation that followed completed.                                *)
C19_Witness ==
  /\ last.op = "completed"
  /\ phase = WAITING
  /\ phase_log = << FADE_OUT, WAITING >>
  /\ hdrm_state = HDRM_STATE_APP_PORTRAIT
  /\ goto_state = HDRM_STATE_UNDEFINED

----------------------------------------------------------------------------
(* Properties of the start of an effect. *)

(* What the call did from the allocation of its record on. *)
FromRecord(steps) ==
  IF "record" \in Range(steps)
  THEN SubSeq(steps,
              Min({ i \in DOMAIN steps : steps[i] = "record" }),
              Len(steps))
  ELSE << >>

(* C20 as stated: every call that starts an effect with a timeline, of any *)
(* kind, allocates the record, marks the client or the two clients, counts *)
(* the effect as running, applies the first frame and then starts the      *)
(* timeline.                                                               *)
C20_StartsAllAlike ==
  [][ ("record" \in Range(last'.steps)
         /\ last'.op # "close_app_before_rotate") =>
        FromRecord(last'.steps) \in
          { << "record", "flags", "counted", "frame", "start" >>,
            << "record", "flags", "flags", "counted", "frame", "start" >> }
    ]_vars

(* C20: popup, fade, notification and subview allocate the record, mark    *)
(* the client or the two clients, count the effect as running, apply the   *)
(* first frame and start the timeline, in this order.                      *)
(* hd_transition_close_app does the same but applies no first frame: it    *)
(* starts the timeline after counting.  hd_transition_fade_and_rotate has  *)
(* no client to mark and does not count its effect as running: it          *)
(* allocates, applies the first frame and starts the timeline.             *)
C20_StartsByKind ==
  [][ "record" \in Range(last'.steps) =>
        LET did == FromRecord(last'.steps)
        IN CASE last'.op \in {"popup", "fade", "notification"} ->
                  /\ did = << "record", "flags", "counted", "frame",
                              "start" >>
                  /\ effect_running' = effect_running + 1
             [] last'.op = "subview" ->
                  /\ did = << "record", "flags", "flags", "counted",
                              "frame", "start" >>
                  /\ effect_running' = effect_running + 1
             [] last'.op = "close_app" ->
                  /\ did = << "record", "flags", "counted", "start" >>
                  /\ effect_running' = effect_running + 1
             [] last'.op = "close_app_before_rotate" ->
                  /\ did = << "record", "flags", "counted" >>
                  /\ effect_running' = effect_running + 1
             [] last'.op \in {"rotate_screen", "timeout", "completed"} ->
                  /\ did = << "record", "frame", "start" >>
                  /\ effect_running' <= effect_running
                  /\ \E r \in RotationFades' :
                       timelines'[r] = "running" /\ frame'[r] = 0
             [] OTHER -> FALSE ]_vars

(* C20's case: hd_transition_close_app has started its timeline with no    *)
(* first frame applied.                                                    *)
C20_Witness ==
  /\ last.op = "close_app"
  /\ last.steps = << "record", "flags", "counted", "start" >>
  /\ \E r \in LiveEffects :
       /\ effects[r].kind = "close_app"
       /\ timelines[r] = "running" /\ frame[r] = 0

----------------------------------------------------------------------------
(* Properties of the records and their timelines. *)

(* C21 as stated: a record is allocated exactly when its timeline runs;    *)
(* the records that wait for a rotation have a timeline like the others.   *)
C21_RecordIffTimer ==
  \A r \in EffectIds : effects[r].live <=> timelines[r] = "running"

(* C21: a running timeline belongs to an allocated record that holds a     *)
(* reference on it, and a freed record has no timeline and no reference.   *)
(* An allocated record has a running timeline unless it waits for a        *)
(* rotation: hd_transition_close_app_before_rotate creates no timeline,    *)
(* its record is in effects_waiting and nothing is running for it.         *)
C21_TimerUnlessDeferred ==
  \A r \in EffectIds :
    /\ timelines[r] = "running" => effects[r].live /\ effects[r].timeline
    /\ ~effects[r].live => timelines[r] = "none" /\ timeline_refs[r] = 0
    /\ effects[r].live =>
         IF effects[r].kind = "close_before_rotate"
         THEN /\ ~effects[r].timeline
              /\ timelines[r] = "none" /\ timeline_refs[r] = 0
              /\ r \in Range(effects_waiting)
         ELSE /\ effects[r].timeline
              /\ timelines[r] = "running" /\ timeline_refs[r] = 1
              /\ r \notin Range(effects_waiting)

(* C21's case: a record waits for a rotation with no timeline, while the   *)
(* timeline of another record runs.                                        *)
C21_Witness ==
  \E r, q \in LiveEffects :
    /\ effects[r].kind = "close_before_rotate"
    /\ timelines[r] = "none" /\ timeline_refs[r] = 0
    /\ effects[q].kind = "popup" /\ timelines[q] = "running"

----------------------------------------------------------------------------
(* Properties of the preconditions of the start operations. *)

(* Everything but the record of the last call. *)
program_vars ==
  << wm, direction, new_direction, phase, goto_state, timeout_id, timer,
     effects_waiting, effects, timelines, frame, timeline_refs,
     decor_actors, flags, effect, refs, actor_refs, actor, has_actor,
     effect_running, is_portrait, hdrm_visible, hdrm_state, sources, due,
     ini, req_log, phase_log, reconf_log, fault >>

(* The client c fails a precondition of hd_transition_close_app. *)
CloseAppRefuses(c, pre) ==
  \/ pre # "ok"
  \/ hdrm_state = HDRM_STATE_TASK_NAV
  \/ ~has_actor[c]
  \/ ~actor[c].visible

(* C22: a call of hd_transition_close_app for a client that is not an      *)
(* application, in the task switcher, for a non-leading secondary window,  *)
(* for a client whose actor is missing or not visible, or for a client     *)
(* smaller than 16 does nothing: no record, no flag, the effect counter as *)
(* before, no reparenting and no sound.                                    *)
C22_CloseAppRefusedIsNoOp ==
  [][ last'.op = "close_app" =>
        \A c \in PlainClients, pre \in ClosePre, x \in BOOLEAN :
          CloseAppRefuses(c, pre) /\ CloseApp(c, pre, x) =>
            /\ UNCHANGED program_vars
            /\ last' = [NoCall EXCEPT !.op = "close_app"] ]_vars

(* C22's case: with the effect of a fade running on it, the client whose   *)
(* actor is hidden has been refused by hd_transition_close_app.            *)
C22_Witness ==
  /\ last.op = "close_app" /\ last.steps = << >>
  /\ has_actor[1] /\ ~actor[1].visible
  /\ \E r \in LiveEffects : effects[r].kind = "fade" /\ effects[r].cclient = 1
  /\ effect_running = 1

(* A start operation called for the client c, as the subview or as the    *)
(* main view where there are two.                                          *)
StartedFor(c) ==
  \/ \E ev \in Events : Popup(c, ev) \/ Fade(c, ev) \/ Notification(c, ev)
  \/ \E pre \in ClosePre, x \in BOOLEAN : CloseApp(c, pre, x)
  \/ \E a \in BOOLEAN : CloseAppBeforeRotate(c, a)
  \/ \E d \in ViewClients, ev \in Events :
        Subview(c, d, ev) \/ Subview(d, c, ev)

(* C23: a start operation of any kind called for a client with no actor    *)
(* builds nothing: no record, no flag on a client and the effect counter   *)
(* as before.                                                              *)
C23_NoActorNoRecord ==
  [][ \A c \in Clients :
        ~has_actor[c] /\ StartedFor(c) =>
          /\ UNCHANGED << effects, timelines, flags, effect, refs,
                          effect_running >>
          /\ last'.steps = << >> ]_vars

(* C23's case: hd_transition_fade was called for a client with no actor,   *)
(* and its record is allocated with a NULL actor, the client is flagged    *)
(* and the effect is counted.                                              *)
C23_Witness ==
  /\ last.op = "fade" /\ ~has_actor[1]
  /\ \E r \in LiveEffects :
       /\ effects[r].kind = "fade" /\ effects[r].cclient = 1
       /\ effects[r].cclient_actor = NULL
       /\ timelines[r] = "running"
  /\ flags[1] = running_flags
  /\ effect_running = 1

----------------------------------------------------------------------------
(* Properties of the settings read from transitions.ini. *)

(* The call finds no keyfile, or a keyfile that is dirty, and loads the    *)
(* file.                                                                   *)
LoadsIni == ini.transitions_ini = NoKeyFile \/ ini.transitions_ini_is_dirty

(* The value for a key read with g_key_file_get_integer or _get_double.    *)
Setting(got, default_val) == IF got.error THEN default_val ELSE got.value

(* The keyfile in use after a call: the file when it is loaded, the        *)
(* keyfile loaded before otherwise.                                        *)
KeyFileInUse ==
  IF LoadsIni /\ ini.file # Unreadable THEN ini.file ELSE ini.transitions_ini

(* C24 as stated: the default is returned whenever the file cannot be      *)
(* loaded or loaded again, or the key is missing or cannot be parsed, and  *)
(* the value of the file otherwise.                                        *)
C24_DefaultOnAnyReadError ==
  [][ last'.op \in {"get_int", "get_double"} =>
        LET read == IF LoadsIni THEN ini.file ELSE ini.transitions_ini
        IN \A d \in IntDefaults \cup DoubleDefaults, ok \in BOOLEAN :
             /\ GetInt(d, ok) =>
                  last'.value = IF read = Unreadable THEN d
                                ELSE Setting(g_key_file_get_integer(read), d)
             /\ GetDouble(d, ok) =>
                  last'.value = IF read = Unreadable THEN d
                                ELSE Setting(g_key_file_get_double(read), d)
    ]_vars

(* C24: hd_transition_get_int and hd_transition_get_double always return   *)
(* a value: the default when no file has been loaded yet or the key is     *)
(* missing or cannot be parsed in the keyfile in use, the value of the     *)
(* keyfile in use otherwise.  A file that cannot be loaded again leaves    *)
(* the keyfile loaded before in use.                                       *)
C24_DefaultOrKeyFileInUse ==
  [][ last'.op \in {"get_int", "get_double"} =>
        \A d \in IntDefaults \cup DoubleDefaults, ok \in BOOLEAN :
          /\ GetInt(d, ok) \/ GetDouble(d, ok) =>
               ini'.transitions_ini = KeyFileInUse
          /\ GetInt(d, ok) =>
               last'.value =
                 IF KeyFileInUse = NoKeyFile THEN d
                 ELSE Setting(g_key_file_get_integer(KeyFileInUse), d)
          /\ GetDouble(d, ok) =>
               last'.value =
                 IF KeyFileInUse = NoKeyFile THEN d
                 ELSE Setting(g_key_file_get_double(KeyFileInUse), d)
    ]_vars

(* C24's case: the file was loaded, then removed; hd_transition_get_int    *)
(* could not load it again and has returned the value loaded before.       *)
C24_Witness ==
  /\ last.op = "get_int" /\ last.value = 120
  /\ ini.file = Unreadable /\ ini.transitions_ini = "120"
  /\ ini.transitions_ini_is_dirty

----------------------------------------------------------------------------
(* Properties of the directions asked for while a rotation is under way. *)

(* The timeline of the machine's fade-out completes after another          *)
(* direction was asked for.                                                *)
FadeOutEndsRedirected ==
  /\ phase = FADE_OUT /\ last'.op = "completed"
  /\ last'.torn # << >> /\ last'.torn[1].kind = "rotate"
  /\ direction # new_direction

(* The phases entered in the step. *)
PhasesEntered == SubSeq(phase_log', Len(phase_log) + 1, Len(phase_log'))

(* The rotation fades of the next state that run as the given part. *)
FadesRunning(event) ==
  { r \in RotationSlots :
      /\ effects'[r].live /\ effects'[r].kind = "rotate"
      /\ effects'[r].event = event /\ timelines'[r] = "running" }

(* C25 as stated: when the fade-out completes after another direction was  *)
(* asked for, the machine takes the new direction and is in FADE_OUT again *)
(* with a new fade-out, having entered no other phase.                     *)
C25_FadeOutRestarted ==
  [][ FadeOutEndsRedirected =>
        /\ phase' = FADE_OUT /\ direction' = new_direction
        /\ FadesRunning(EventMap) # {}
        /\ \A i \in DOMAIN PhasesEntered : PhasesEntered[i] = FADE_OUT ]_vars

(* C25: when the fade-out completes after another direction was asked for, *)
(* the machine takes the new direction and, through the WAITING case,      *)
(* enters FADE_IN: it shows the scene and starts the fade-in, with no      *)
(* reconfiguration of the screen, no timeout and no timer.                 *)
C25_FadeOutThenFadeIn ==
  [][ FadeOutEndsRedirected =>
        /\ phase' = FADE_IN /\ PhasesEntered = << FADE_IN >>
        /\ direction' = new_direction /\ new_direction' = new_direction
        /\ hdrm_visible'
        /\ FadesRunning(EventUnmap) # {} /\ FadesRunning(EventMap) = {}
        /\ reconf_log' = reconf_log /\ is_portrait' = is_portrait
        /\ timeout_id' = 0 /\ timer' = NoTimer /\ sources' = sources ]_vars

(* C25's case: portrait was asked for at IDLE and landscape during the     *)
(* fade-out; the fade-out has completed and the machine fades in with the  *)
(* screen as it was.                                                       *)
C25_Witness ==
  /\ last.op = "completed" /\ phase = FADE_IN
  /\ Len(req_log) = 2
  /\ req_log[1].goto_portrait /\ ~req_log[2].goto_portrait
  /\ req_log[2].phase = FADE_OUT
  /\ phase_log = << FADE_OUT, FADE_IN >>
  /\ direction = GOTO_LANDSCAPE /\ reconf_log = << >> /\ ~is_portrait

(* The timeline of the machine's fade-in completes. *)
FadeInEnds ==
  /\ phase = FADE_IN /\ last'.op = "completed"
  /\ last'.torn # << >> /\ last'.torn[1].kind = "rotate"

(* C26: when the fade-in completes the phase becomes IDLE; if another      *)
(* direction was asked for by then the machine goes on in the same step:   *)
(* it is in FADE_OUT with the direction asked for and a new fade-out       *)
(* running.  Otherwise it stays in IDLE with no fade.                      *)
C26_FadeInEndsOrRestarts ==
  [][ FadeInEnds =>
        IF direction # new_direction
        THEN /\ PhasesEntered = << IDLE, FADE_OUT >> /\ phase' = FADE_OUT
             /\ direction' = new_direction /\ new_direction' = new_direction
             /\ FadesRunning(EventMap) # {} /\ FadesRunning(EventUnmap) = {}
        ELSE /\ PhasesEntered = << IDLE >> /\ phase' = IDLE
             /\ direction' = direction
             /\ FadesRunning(EventMap) = {} /\ FadesRunning(EventUnmap) = {}
    ]_vars

(* C26's case: landscape was asked for during the fade-in of a rotation to *)
(* portrait; the fade-in has completed and the machine fades out again.    *)
C26_Witness ==
  /\ last.op = "completed" /\ phase = FADE_OUT
  /\ phase_log = << FADE_OUT, WAITING, FADE_IN, IDLE, FADE_OUT >>
  /\ Len(req_log) = 2 /\ req_log[2].phase = FADE_IN
  /\ direction = GOTO_LANDSCAPE /\ is_portrait
  /\ \E r \in RotationFades : effects[r].live /\ timelines[r] = "running"

(* The record r is the fade-out part, and the machine goes to portrait. *)
FirstPart(r) == effects[r].event = EventMap
GotoPortrait == direction = GOTO_PORTRAIT

(* C27 as stated: the angle of a rotation fade is negated exactly when     *)
(* "it is the fade-out" and "the direction is portrait" differ: for the    *)
(* fade-out to landscape and the fade-in to portrait.                      *)
C27_NegatedWhenPartAndDirectionDiffer ==
  \A r \in RotationFades :
    effects[r].live =>
      effects[r].angle = IF FirstPart(r) # GotoPortrait
                         THEN 0 - RotateAngle ELSE RotateAngle

(* C27: the angle of a rotation fade is negated exactly when "it is the    *)
(* fade-out" and "the direction is portrait" agree: for the fade-out to    *)
(* portrait and the fade-in to landscape.                                  *)
C27_NegatedWhenPartAndDirectionAgree ==
  \A r \in RotationFades :
    effects[r].live =>
      effects[r].angle = IF FirstPart(r) = GotoPortrait
                         THEN 0 - RotateAngle ELSE RotateAngle

(* C27's case: the fade-in of a rotation back to landscape runs with the   *)
(* angle negated.                                                          *)
C27_Witness ==
  /\ phase = FADE_IN /\ direction = GOTO_LANDSCAPE /\ ~is_portrait
  /\ reconf_log # << >>
  /\ \E r \in RotationFades :
       /\ effects[r].live /\ ~FirstPart(r) /\ timelines[r] = "running"
       /\ effects[r].angle = 0 - RotateAngle

(* The invocations of the machine made from within the machine in the     *)
(* last step.                                                              *)
ReentrantCalls == { i \in DOMAIN last.calls : i > 1 }

(* C28 as stated: at every re-entrant invocation of the machine the        *)
(* direction is already the direction asked for, and the invocations of    *)
(* one step are bounded.                                                   *)
C28_DirectionTakenBeforeReentry ==
  /\ Len(last.calls) <= 2
  /\ \A i \in ReentrantCalls :
       last.calls[i].direction = last.calls[i].new_direction

(* C28: the machine enters itself at most once in a step.  Entered again   *)
(* from the WAITING case it is in FADE_OUT with the direction asked for    *)
(* already taken; entered again from the FADE_IN case it is in IDLE with   *)
(* the old direction, and its IDLE case takes the direction asked for.     *)
C28_OneReentry ==
  /\ Len(last.calls) <= 2
  /\ \A i \in ReentrantCalls :
       \/ /\ last.calls[i - 1].phase = WAITING
          /\ last.calls[i - 1].direction # last.calls[i - 1].new_direction
          /\ last.calls[i].phase = FADE_OUT
          /\ last.calls[i].direction = last.calls[i].new_direction
          /\ phase = WAITING
       \/ /\ last.calls[i - 1].phase = FADE_IN
          /\ last.calls[i].phase = IDLE
          /\ last.calls[i].direction # last.calls[i].new_direction
          /\ phase = FADE_OUT
          /\ direction = last.calls[i].new_direction
          /\ direction = new_direction

(* C28's case: the fade-in has completed after another direction was       *)
(* asked for, and the machine has entered itself with the old direction.   *)
C28_Witness ==
  /\ last.op = "completed" /\ Len(last.calls) = 2
  /\ last.calls[1].phase = FADE_IN /\ last.calls[2].phase = IDLE
  /\ last.calls[2].direction = GOTO_PORTRAIT
  /\ last.calls[2].new_direction = GOTO_LANDSCAPE
  /\ phase = FADE_OUT /\ direction = GOTO_LANDSCAPE

(* C29: a rotation under way is not given up.  The phase becomes IDLE     *)
(* only in the step in which the timeline of the fade-in completes, never  *)
(* from FADE_OUT or WAITING, and IDLE is not passed through in any other   *)
(* step; a request made during the rotation changes the direction asked    *)
(* for and the window manager kept, and nothing else.                      *)
C29_NoCancel ==
  [][ /\ phase \in {FADE_OUT, WAITING} => phase' # IDLE
      /\ (\E i \in DOMAIN PhasesEntered : PhasesEntered[i] = IDLE)
           => FadeInEnds
      /\ phase # IDLE /\ phase' = IDLE => FadeInEnds
      /\ last'.op = "rotate_screen" /\ phase # IDLE =>
           /\ last'.ret = "TRUE" /\ last'.calls = << >>
           /\ UNCHANGED << direction, phase, goto_state, timeout_id, timer,
                           effects_waiting, effects, timelines, frame,
                           timeline_refs, decor_actors, flags, effect, refs,
                           actor_refs, actor, has_actor, effect_running,
                           is_portrait, hdrm_visible, hdrm_state, sources,
                           due, ini, phase_log, reconf_log, fault >>
    ]_vars

(* C29's case: landscape was asked for during the fade-out to portrait;    *)
(* the machine went on to FADE_IN and is in IDLE after the fade-in has     *)
(* completed.                                                              *)
C29_Witness ==
  /\ phase = IDLE /\ last.op = "completed"
  /\ Len(req_log) = 2 /\ req_log[2].phase = FADE_OUT
  /\ ~req_log[2].goto_portrait
  /\ phase_log = << FADE_OUT, FADE_IN, IDLE >>
  /\ \A r \in EffectIds : ~effects[r].live

----------------------------------------------------------------------------
(* Properties of the slides asked for beside a running effect. *)

InTrans(c) == EffectRunning \in flags[c]

(* The request can take over the running slide: the main view it leaves    *)
(* is the entering subview of a Map slide, or the subview it leaves is the *)
(* main view of an Unmap slide.                                            *)
Coalesces(subview, mainview, event) ==
  \/ /\ InTrans(mainview) /\ event = EventMap /\ effect[mainview] # NULL
     /\ effects[effect[mainview]].event = EventMap
     /\ effects[effect[mainview]].cclient = mainview
  \/ /\ InTrans(subview) /\ event = EventUnmap /\ effect[subview] # NULL
     /\ effects[effect[subview]].event = EventUnmap
     /\ effects[effect[subview]].cclient2 = subview

(* C30: a slide asked for between two clients of which exactly one is in a *)
(* transition, and which cannot take over that transition, starts nothing  *)
(* and changes nothing: no record, flag, effect pointer, reference or      *)
(* counter.                                                                *)
C30_OneInTransitionNotTakenOver ==
  [][ last'.op = "subview" =>
        \A s, m \in Clients, ev \in Events :
          /\ STATE_IS_APP(hdrm_state)
          /\ InTrans(s) # InTrans(m)
          /\ ~Coalesces(s, m, ev)
          /\ SubviewOfTwo(s, m, ev)
          => /\ UNCHANGED program_vars
             /\ last' = [NoCall EXCEPT !.op = "subview"] ]_vars

(* C30's case: a popup runs on one client and no slide runs; a slide was   *)
(* asked for between two clients and nothing was started, which leaves the *)
(* requests between the client of the popup and a view.                    *)
C30_Witness ==
  /\ last.op = "subview" /\ last.steps = << >>
  /\ STATE_IS_APP(hdrm_state)
  /\ InTrans(1) /\ effect[1] = NULL
  /\ \A c \in ViewClients : ~InTrans(c)
  /\ \E r \in LiveEffects : effects[r].kind = "popup" /\ effects[r].cclient = 1
  /\ FreeSlots(World, ClientSlots) # {}

----------------------------------------------------------------------------
(* Properties that hold in every state between two callbacks. *)

(* The rotation fades that are allocated, and those of them whose timeline *)
(* runs with the machine connected to its completion.                      *)
LiveFades == { r \in RotationFades : effects[r].live }
ResumingFades ==
  { r \in LiveFades : effects[r].fsm_cb /\ timelines[r] = "running" }

(* C31: the machine is never in a phase other than IDLE with nothing to    *)
(* resume it.  In FADE_OUT and FADE_IN exactly one rotation fade is        *)
(* allocated, its timeline runs and its completion calls the machine, and  *)
(* no debounce timeout is armed; in WAITING exactly one debounce timeout   *)
(* is armed and no rotation fade is allocated.                             *)
C31_AlwaysResumable ==
  /\ phase \in {FADE_OUT, FADE_IN} =>
       /\ Cardinality(LiveFades) = 1 /\ ResumingFades = LiveFades
       /\ sources = 0 /\ timeout_id = 0
  /\ phase = WAITING =>
       /\ sources = 1 /\ timeout_id # 0
       /\ LiveFades = {}

(* C31's case: in WAITING a damage event has armed the debounce timeout    *)
(* again after time has passed, and one timeout is armed.                  *)
C31_Witness ==
  /\ phase = WAITING /\ last.op = "ignore_damage" /\ last.ret = "TRUE"
  /\ timer > 0 /\ timer < CeilingTicks
  /\ sources = 1 /\ ~due /\ LiveFades = {}

(* C32: with the screen taking every reconfiguration, in IDLE the         *)
(* orientation of the screen is the direction of the machine, whatever was *)
(* asked for and at whatever phase.  No reconfiguration asks for the       *)
(* orientation the screen has, and the fade-in started with no             *)
(* reconfiguration, after another direction was asked for during the       *)
(* fade-out, is to the orientation the screen has.                         *)
C32_IdleDirectionIsOrientation ==
  /\ [](phase = IDLE => (direction = GOTO_PORTRAIT) = is_portrait)
  /\ [][ /\ reconf_log' # reconf_log /\ reconf_log' # << >> =>
              /\ Len(reconf_log') = Len(reconf_log) + 1
              /\ reconf_log'[Len(reconf_log')] # is_portrait
              /\ is_portrait' = reconf_log'[Len(reconf_log')]
         /\ reconf_log' = reconf_log \/ reconf_log' = << >> =>
              is_portrait' = is_portrait
         /\ FadeOutEndsRedirected =>
              (direction' = GOTO_PORTRAIT) = is_portrait' ]_vars

(* C32's case: portrait was asked for at IDLE and landscape in WAITING;    *)
(* the screen was turned twice and the machine is in IDLE in landscape.    *)
C32_Witness ==
  /\ phase = IDLE /\ last.op = "completed"
  /\ Len(req_log) = 2 /\ req_log[2].phase = WAITING
  /\ reconf_log = << TRUE, FALSE >>
  /\ direction = GOTO_LANDSCAPE /\ ~is_portrait

(* C33: the scene of the render manager is hidden exactly in WAITING: it  *)
(* is visible in IDLE, FADE_OUT and FADE_IN, and when the timeout finds in *)
(* WAITING that another direction was asked for, the machine passes        *)
(* FADE_OUT and is in WAITING again with the scene still hidden.           *)
C33_HiddenExactlyInWaiting ==
  /\ [](hdrm_visible <=> phase # WAITING)
  /\ [][ phase = WAITING /\ last'.op = "timeout" =>
           IF direction # new_direction
           THEN /\ PhasesEntered = << FADE_OUT, WAITING >>
                /\ ~hdrm_visible'
           ELSE /\ PhasesEntered = << FADE_IN >>
                /\ hdrm_visible' ]_vars

(* C33's case: the machine is in WAITING for the second time in a row,     *)
(* after another direction was asked for, and the scene is hidden.         *)
C33_Witness ==
  /\ phase = WAITING /\ last.op = "timeout" /\ ~hdrm_visible
  /\ phase_log = << FADE_OUT, WAITING, FADE_OUT, WAITING >>
  /\ Len(reconf_log) = 2

(* The allocated records that have a manager. *)
ManagedEffects == { r \in LiveEffects : effects[r].hmgr }

(* C34: the effect counter of the manager is the number of allocated       *)
(* records that have a manager: a record counts from its creation to its   *)
(* teardown, a slide that takes another client in counts once, and the     *)
(* rotation fades, which have no manager, do not count.  The counter is    *)
(* never negative and is 0 when no such record is allocated.               *)
C34_CounterIsManagedRecords ==
  /\ effect_running = Cardinality(ManagedEffects)
  /\ effect_running >= 0
  /\ \A r \in LiveFades : ~effects[r].hmgr

(* C34's case: a slide has taken another client in while a rotation fade   *)
(* runs, and the counter is 1.                                             *)
C34_Witness ==
  /\ last.op = "subview" /\ last.steps = << "flags" >>
  /\ LiveFades # {}
  /\ Cardinality(ManagedEffects) = 1 /\ effect_running = 1
  /\ Cardinality(LiveEffects) = 2

----------------------------------------------------------------------------
(* Properties of the marking of the clients. *)

(* The allocated slides of which c is the subview or the main view. *)
SlidesWith(c) ==
  { r \in LiveEffects : /\ effects[r].kind = "subview"
                        /\ c \in {effects[r].cclient, effects[r].cclient2} }

(* C35: with slides asked for, completed and stopped, the effect pointer   *)
(* of a client is set exactly when the client is the subview or the main   *)
(* view of an allocated slide, and it is that slide; hd_transition_stop    *)
(* for a client whose effect pointer is NULL changes nothing.              *)
C35_PointerIsTheSlide ==
  /\ [](\A c \in Clients :
          /\ effect[c] # NULL <=> SlidesWith(c) # {}
          /\ effect[c] # NULL => SlidesWith(c) = {effect[c]})
  /\ [][ last'.op = "stop" =>
           \A c \in Clients :
             effect[c] = NULL /\ Stop(c) =>
               /\ UNCHANGED program_vars
               /\ last' = [NoCall EXCEPT !.op = "stop"] ]_vars

(* C35's case: a slide runs between two views and hd_transition_stop was   *)
(* called for the third, whose effect pointer is NULL.                     *)
C35_Witness ==
  /\ last.op = "stop" /\ last.torn = << >>
  /\ \E r \in LiveEffects :
       /\ effects[r].kind = "subview" /\ timelines[r] = "running"
       /\ \A c \in Clients : effect[c] = IF c \in {effects[r].cclient,
                                                   effects[r].cclient2}
                                         THEN r ELSE NULL
  /\ Cardinality(LiveEffects) = 1

(* The allocated records of which c is the first or the second client. *)
RecordsWith(c) ==
  { r \in LiveEffects : c \in {effects[r].cclient, effects[r].cclient2} }

(* C36: a client of an allocated record has DontUpdate and EffectRunning   *)
(* set, whatever effects were started on it, completed and stopped: the    *)
(* flags go only with the last record of the client.                       *)
C36_FlaggedWhileReferenced ==
  \A c \in Clients : RecordsWith(c) # {} => running_flags \subseteq flags[c]

(* C36's case: a popup and a fade were started on one client; the popup    *)
(* has completed and has cleared the flags of the client, whose fade still *)
(* runs.                                                                   *)
C36_Witness ==
  /\ last.op = "completed" /\ last.torn # << >>
  /\ last.torn[1].kind = "popup"
  /\ \E r \in RecordsWith(1) :
       effects[r].kind = "fade" /\ timelines[r] = "running"
  /\ flags[1] = {}
  /\ effect_running = 1

(* The teardowns of the step that were of a record made by                *)
(* hd_transition_close_app_before_rotate.                                  *)
DeferredTorn ==
  { i \in DOMAIN last'.torn : last'.torn[i].kind = "close_before_rotate" }

(* C37: a teardown clears DontUpdate and EffectRunning and no other flag.  *)
(* A client that hd_transition_close_app_before_rotate has marked with     *)
(* DontShow as well has DontShow set, and the two others cleared, after    *)
(* its record was torn down when the fade-out completed.                   *)
C37_TeardownLeavesDontShow ==
  [][ last'.op \in {"completed", "timeout", "stop"} =>
        /\ \A c \in Clients :
             /\ flags'[c] \subseteq flags[c]
             /\ flags[c] \ flags'[c] \subseteq running_flags
        /\ \A i \in DeferredTorn :
             /\ last'.torn[i].clients # {}
             /\ \A c \in last'.torn[i].clients :
                  /\ DontShow \in flags[c] /\ running_flags \subseteq flags[c]
                  /\ flags'[c] = {DontShow} ]_vars

(* C37's case: the fade-out has completed and the record that waited for   *)
(* it was torn down; its client has no record and DontShow is set.         *)
C37_Witness ==
  /\ last.op = "completed" /\ phase = WAITING
  /\ Len(last.torn) = 2 /\ last.torn[2].kind = "close_before_rotate"
  /\ last.torn[2].clients = {1}
  /\ RecordsWith(1) = {} /\ flags[1] = {DontShow}

====
